---- MODULE Spec2Model ----
(***************************************************************************)
(* Model of the field validation engine of document-validator-app          *)
(* (src/processors/validator.py) and of the banking check of its           *)
(* application (src/app.py).                                               *)
(*                                                                         *)
(* Python strings are sequences of one-character strings.  A Python value  *)
(* handed to the engine (None, a str, a list of str) is a record           *)
(* [kind, str, list].  A result dictionary is a record that carries the    *)
(* set of keys the dictionary really has ("keys"); a field whose key is    *)
(* not in "keys" holds the filler NoScore / NoNotes.                       *)
(***************************************************************************)
EXTENDS Integers, Sequences, FiniteSets, TLC

VARIABLES
    op,                 \* the operation that ran last ("none" before any)
    source_of_truth,    \* validate_documents: dict, as a sequence of <<key, value>>
    target_doc,         \* validate_documents: dict, as a sequence of <<key, value>>
    target_doc_type,    \* validate_documents: the document-type tag
    validation_report,  \* validate_documents: returned dict, <<key, result>> in insertion order
    calls,              \* validate_documents: the validator invocations it made, in order
    raised,             \* name of the exception that left the operation ("" if it returned)
    source_value,       \* direct validator call: first argument
    target_value,       \* direct validator call: second argument
    field_result,       \* direct validator call: returned dictionary
    returned_text,      \* normalize_string_for_fuzzy call: returned string
    banking_check_result, \* validate_banking_details call: returned dictionary
    denoted,            \* container call: the sets of numbers the two arguments stand for
    consolidation,      \* consolidate_extractions call: arguments, base afterwards, result
    pc,                 \* the button handler of the application: where it stands
    file_uploads,       \* st.session_state.file_uploads: the slots that hold a file
    all_extracted_data, \* the handler's dict of extractions, <<doc_key, extraction>>
    all_detailed_reports, \* the handler's dict of reports, <<doc_key, report>>
    summary_results,    \* the handler's summary, <<field, <<doc_key, status>>...>>
    validate_calls,     \* the handler's calls of validate_documents, in order
    shown               \* the messages and panels the handler rendered, in order

vars == <<op, source_of_truth, target_doc, target_doc_type, validation_report,
          calls, raised, source_value, target_value, field_result, returned_text,
          banking_check_result, denoted, consolidation, pc, file_uploads,
          all_extracted_data, all_detailed_reports, summary_results, validate_calls, shown>>

\* the state of the application's button handler
appVars == <<pc, file_uploads, all_extracted_data, all_detailed_reports, summary_results,
             validate_calls, shown>>

-----------------------------------------------------------------------------
(* Python values *)

PyNone == [kind |-> "none", str |-> <<>>, list |-> <<>>]

PyStr(s) == [kind |-> "str", str |-> s, list |-> <<>>]

PyList(l) == [kind |-> "list", str |-> <<>>, list |-> l]

Digits == {"0", "1", "2", "3", "4", "5", "6", "7", "8", "9"}

DigitValue == [c \in Digits |->
    CASE c = "0" -> 0 [] c = "1" -> 1 [] c = "2" -> 2 [] c = "3" -> 3
      [] c = "4" -> 4 [] c = "5" -> 5 [] c = "6" -> 6 [] c = "7" -> 7
      [] c = "8" -> 8 [] c = "9" -> 9]

LowerLetters == <<"a", "b", "c", "d", "e", "f", "g", "h", "i", "j", "k", "l", "m",
                  "n", "o", "p", "q", "r", "s", "t", "u", "v", "w", "x", "y", "z">>

UpperLetters == <<"A", "B", "C", "D", "E", "F", "G", "H", "I", "J", "K", "L", "M",
                  "N", "O", "P", "Q", "R", "S", "T", "U", "V", "W", "X", "Y", "Z">>

LowerSet == {LowerLetters[i] : i \in DOMAIN LowerLetters}

UpperSet == {UpperLetters[i] : i \in DOMAIN UpperLetters}

\* the characters Python's str.strip() and the regex class \s treat as blank
Whitespace == {" ", "\t", "\n"}

IndexOf(seq, c) == CHOOSE i \in DOMAIN seq : seq[i] = c

\* str.upper() on one character
UpperChar(c) == IF c \in LowerSet THEN UpperLetters[IndexOf(LowerLetters, c)] ELSE c

\* str.lower() on one character
LowerChar(c) == IF c \in UpperSet THEN LowerLetters[IndexOf(UpperLetters, c)] ELSE c

\* [F(x) for x in s]
MapSeq(F(_), s) == [i \in DOMAIN s |-> F(s[i])] \o <<>>

upper(s) == MapSeq(UpperChar, s)

lower(s) == MapSeq(LowerChar, s)

RECURSIVE lstrip(_)
lstrip(s) == IF s # <<>> /\ Head(s) \in Whitespace THEN lstrip(Tail(s)) ELSE s

RECURSIVE rstrip(_)
rstrip(s) ==
    IF s # <<>> /\ s[Len(s)] \in Whitespace THEN rstrip(SubSeq(s, 1, Len(s) - 1)) ELSE s

\* str.strip()
strip(s) == rstrip(lstrip(s))

RECURSIVE Concat(_)
Concat(ss) == IF ss = <<>> THEN <<>> ELSE Head(ss) \o Concat(Tail(ss))

RECURSIVE join(_, _)
join(sep, ss) ==
    IF ss = <<>> THEN <<>>
    ELSE IF Len(ss) = 1 THEN ss[1]
    ELSE ss[1] \o sep \o join(sep, Tail(ss))

\* repr() of a str that holds no quote and no backslash
repr(s) == <<"'">> \o s \o <<"'">>

\* the builtin str(): "None", the string itself, or the list display
str(v) ==
    CASE v.kind = "none" -> <<"N", "o", "n", "e">>
      [] v.kind = "str"  -> v.str
      [] v.kind = "list" -> <<"[">> \o join(<<",", " ">>, MapSeq(repr, v.list)) \o <<"]">>

-----------------------------------------------------------------------------
(* Result dictionaries *)

NoScore == -1

NoNotes == <<>>

\* a piece of a notes string: literal text, or text rendered from a value
Lit(x) == [lit |-> x, val |-> <<>>]

Val(cs) == [lit |-> "", val |-> cs]

\* {"status": st, "score": sc}
ResultStatusScore(st, sc) ==
    [exc |-> "", keys |-> {"status", "score"}, status |-> st, score |-> sc, notes |-> NoNotes]

\* {"status": st, "score": sc, "notes": n}
ResultStatusScoreNotes(st, sc, n) ==
    [exc |-> "", keys |-> {"status", "score", "notes"}, status |-> st, score |-> sc, notes |-> n]

\* {"status": st, "notes": n}: the dictionary has no "score" key
ResultStatusNotes(st, n) ==
    [exc |-> "", keys |-> {"status", "notes"}, status |-> st, score |-> NoScore, notes |-> n]

\* the call did not return: exception e left it
Raise(e) == [exc |-> e, keys |-> {}, status |-> "", score |-> NoScore, notes |-> NoNotes]

ValidationStatus ==
    {"MATCHED_EXACTLY", "MATCHED_WITH_TOLERANCE", "MATCHED_CONTENT_ONLY", "MATCHED_MOSTLY",
     "DOES_NOT_MATCH", "TYPE_ERROR", "MISSING_REQUIRED_FIELD", "NOT_APPLICABLE"}

-----------------------------------------------------------------------------
(* Numeric normalizer and the builtins float() and int() *)

\* text.replace(',', '') then re.sub(r'[^\d.-]', '', text)
normalize_for_numeric(text) ==
    LET t0 == str(text)
        t1 == SelectSeq(t0, LAMBDA c : c # ",")
    IN  SelectSeq(t1, LAMBDA c : c \in Digits \cup {".", "-"})

\* a double holds every decimal integer of at most this many digits below 1.8e308;
\* one of more significant integer digits is read as infinity
DBL_MAX_10_EXP == 308

RECURSIVE DropLeadingZeros(_)
DropLeadingZeros(s) ==
    IF s # <<>> /\ Head(s) = "0" THEN DropLeadingZeros(Tail(s)) ELSE s

RECURSIVE DigitsValue(_)
DigitsValue(s) ==
    IF s = <<>> THEN 0 ELSE 10 * DigitsValue(SubSeq(s, 1, Len(s) - 1)) + DigitValue[s[Len(s)]]

RECURSIVE Pow10(_)
Pow10(n) == IF n = 0 THEN 1 ELSE 10 * Pow10(n - 1)

\* float(s) for a string of digits, "." and "-": ValueError unless s is
\* [-] digits [. digits*] or [-] . digits; the value is (-1)^neg * num / den
float(s) ==
    LET neg  == s # <<>> /\ Head(s) = "-"
        body == IF neg THEN Tail(s) ELSE s
        dots == {i \in DOMAIN body : body[i] = "."}
        ok   == /\ \A i \in DOMAIN body : body[i] \in Digits \cup {"."}
                /\ Cardinality(dots) <= 1
                /\ \E i \in DOMAIN body : body[i] \in Digits
        dot  == IF dots = {} THEN Len(body) + 1 ELSE CHOOSE i \in dots : TRUE
        ip   == DropLeadingZeros(SubSeq(body, 1, dot - 1))
        fp   == SubSeq(body, dot + 1, Len(body))
    IN  IF ~ok THEN [err |-> "ValueError", inf |-> FALSE, neg |-> FALSE, num |-> 0, den |-> 1]
        ELSE IF Len(ip) > DBL_MAX_10_EXP + 1
             THEN [err |-> "", inf |-> TRUE, neg |-> neg, num |-> 0, den |-> 1]
        ELSE [err |-> "", inf |-> FALSE, neg |-> neg,
              num |-> DigitsValue(ip \o fp), den |-> Pow10(Len(fp))]

\* the signed numerator of a finite float
Signed(f) == IF f.neg THEN 0 - f.num ELSE f.num

\* int(float(s)): the fraction is cut off; int(inf) raises OverflowError
int_float(s) ==
    LET f == float(s)
    IN  IF f.err # "" THEN [err |-> f.err, val |-> 0]
        ELSE IF f.inf THEN [err |-> "OverflowError", val |-> 0]
        ELSE [err |-> "", val |-> IF f.neg THEN 0 - (f.num \div f.den) ELSE f.num \div f.den]

\* source_float == target_float
FloatEq(a, b) ==
    IF a.inf \/ b.inf THEN a.inf /\ b.inf /\ a.neg = b.neg
    ELSE Signed(a) * b.den = Signed(b) * a.den

Abs(x) == IF x < 0 THEN 0 - x ELSE x

\* the band taken relative to the larger magnitude of the two values
WithinTolerance_symmetric(a, b) ==
    IF a.inf \/ b.inf THEN TRUE
    ELSE Abs(Signed(a) * b.den - Signed(b) * a.den) * 100
             <= (IF a.num * b.den >= b.num * a.den THEN a.num * b.den ELSE b.num * a.den)

\* the band never narrower than one unit
WithinTolerance_absolute_floor(a, b) ==
    IF a.inf THEN ~a.neg
    ELSE IF b.inf THEN FALSE
    ELSE Abs(Signed(a) * b.den - Signed(b) * a.den) * 100
             <= (IF Signed(a) * b.den >= 100 * a.den * b.den
                 THEN Signed(a) * b.den ELSE 100 * a.den * b.den)

\* abs(source_float - target_float) <= source_float * tolerance, tolerance = 1/100,
\* for unequal a and b (in exact arithmetic on the decimal values)
WithinTolerance(a, b) ==
    IF a.inf THEN ~a.neg
    ELSE IF b.inf THEN FALSE
    ELSE Abs(Signed(a) * b.den - Signed(b) * a.den) * 100 <= Signed(a) * b.den

DigitChar == <<"0", "1", "2", "3", "4", "5", "6", "7", "8", "9">>

RECURSIVE NatToStr(_)
NatToStr(n) == IF n < 10 THEN <<DigitChar[n + 1]>> ELSE NatToStr(n \div 10) \o <<DigitChar[(n % 10) + 1]>>

\* str() of an int, as an f-string renders it
IntToStr(n) == IF n < 0 THEN <<"-">> \o NatToStr(0 - n) ELSE NatToStr(n)

\* n / d rounded to the nearest integer, a tie going to the even one
RoundHalfEven(n, d) ==
    LET q == n \div d
        r == n % d
    IN  IF 2 * r > d THEN q + 1
        ELSE IF 2 * r < d THEN q
        ELSE IF q % 2 = 0 THEN q ELSE q + 1

\* f"{x:.2f}"
FormatFixed2(f) ==
    IF f.inf THEN (IF f.neg THEN <<"-">> ELSE <<>>) \o <<"i", "n", "f">>
    ELSE LET h == RoundHalfEven(f.num * 100, f.den)
             c == h % 100
         IN  (IF f.neg THEN <<"-">> ELSE <<>>) \o NatToStr(h \div 100) \o <<".">>
                 \o <<DigitChar[(c \div 10) + 1], DigitChar[(c % 10) + 1]>>

-----------------------------------------------------------------------------
(* Field validators for numbers *)

\* except (ValueError, TypeError, AttributeError)
CaughtByNumeric == {"ValueError", "TypeError", "AttributeError"}

validate_integer_field(source, target) ==
    LET source_str == normalize_for_numeric(source)
        target_str == normalize_for_numeric(target)
        source_int == int_float(source_str)
        target_int == int_float(target_str)
        \* the first exception raised in the try block
        err == IF source_int.err # "" THEN source_int.err ELSE target_int.err
    IN  IF err \in CaughtByNumeric
        THEN ResultStatusNotes("TYPE_ERROR",
                 <<Lit("Could not parse one or both values as a whole number.")>>)
        ELSE IF err # "" THEN Raise(err)
        ELSE IF source_int.val = target_int.val
        THEN ResultStatusScore("MATCHED_EXACTLY", 100)
        ELSE ResultStatusScoreNotes("DOES_NOT_MATCH", 0,
                 <<Lit("Expected "), Val(IntToStr(source_int.val)), Lit(", but found "),
                   Val(IntToStr(target_int.val)), Lit(".")>>)

validate_float_field(source, target) ==
    LET source_str == normalize_for_numeric(source)
        target_str == normalize_for_numeric(target)
        source_float == float(source_str)
        target_float == float(target_str)
        err == IF source_float.err # "" THEN source_float.err ELSE target_float.err
    IN  IF err \in CaughtByNumeric
        THEN ResultStatusNotes("TYPE_ERROR",
                 <<Lit("Could not parse one or both values as a decimal number.")>>)
        ELSE IF err # "" THEN Raise(err)
        ELSE IF FloatEq(source_float, target_float)
        THEN ResultStatusScore("MATCHED_EXACTLY", 100)
        ELSE IF WithinTolerance(source_float, target_float)
        THEN ResultStatusScoreNotes("MATCHED_WITH_TOLERANCE", 99,
                 <<Lit("Values are within the 1.0% tolerance range.")>>)
        ELSE ResultStatusScoreNotes("DOES_NOT_MATCH", 0,
                 <<Lit("Expected ~"), Val(FormatFixed2(source_float)), Lit(", but found "),
                   Val(FormatFixed2(target_float)), Lit(".")>>)

\* the parameters of def _normalize_for_numeric(text)
NormalizeForNumericParams == {"text"}

\* a call _normalize_for_numeric(value, **kwargs): an unknown keyword argument raises
\* TypeError before the body runs
call_normalize_for_numeric(value, kwargs) ==
    IF kwargs \subseteq NormalizeForNumericParams
    THEN [err |-> "", val |-> normalize_for_numeric(value)]
    ELSE [err |-> "TypeError", val |-> <<>>]

\* except (ValueError, TypeError)
CaughtByCurrency == {"ValueError", "TypeError"}

validate_currency_field(source, target) ==
    LET norm_source == call_normalize_for_numeric(source, {"keep_decimal"})
        norm_target == call_normalize_for_numeric(target, {"keep_decimal"})
        err == IF norm_source.err # "" THEN norm_source.err ELSE norm_target.err
    IN  IF err \in CaughtByCurrency
        THEN ResultStatusNotes("TYPE_ERROR",
                 <<Lit("Could not parse one or both currency values.")>>)
        ELSE IF err # "" THEN Raise(err)
        ELSE IF norm_source.val = norm_target.val
        THEN ResultStatusScore("MATCHED_EXACTLY", 100)
        ELSE ResultStatusScoreNotes("DOES_NOT_MATCH", 0,
                 <<Lit("Values do not match after removing currency symbols. Expected '"),
                   Val(norm_source.val), Lit("', found '"), Val(norm_target.val), Lit("'.")>>)

-----------------------------------------------------------------------------
(* Text helpers: splitting, ordering, sets of strings *)

RECURSIVE TokensAcc(_, _, _, _)
TokensAcc(s, seps, cur, acc) ==
    IF s = <<>> THEN (IF cur = <<>> THEN acc ELSE Append(acc, cur))
    ELSE IF Head(s) \in seps
         THEN TokensAcc(Tail(s), seps, <<>>, IF cur = <<>> THEN acc ELSE Append(acc, cur))
         ELSE TokensAcc(Tail(s), seps, Append(cur, Head(s)), acc)

\* the non-empty pieces of s between runs of separator characters
Tokens(s, seps) == TokensAcc(s, seps, <<>>, <<>>)

\* str.split()
split(s) == Tokens(s, Whitespace)

\* [v for v in re.split(r'[\s,]+', value) if v]
re_split_ws_comma(s) == Tokens(s, Whitespace \cup {","})

Range(s) == {s[i] : i \in DOMAIN s}

\* code-point order of the characters the model compares
AsciiOrder == <<" ", "'", "(", ")", ",", "-", ".">> \o DigitChar \o UpperLetters
                  \o <<"[", "]">> \o LowerLetters \o <<"{", "}">>

Ord(c) == IndexOf(AsciiOrder, c)

\* a < b for Python strings
RECURSIVE StrLess(_, _)
StrLess(a, b) ==
    IF b = <<>> THEN FALSE
    ELSE IF a = <<>> THEN TRUE
    ELSE IF Head(a) = Head(b) THEN StrLess(Tail(a), Tail(b))
    ELSE Ord(Head(a)) < Ord(Head(b))

\* sorted(S) for a set of strings
RECURSIVE sorted(_)
sorted(S) ==
    IF S = {} THEN <<>>
    ELSE LET m == CHOOSE x \in S : \A y \in S \ {x} : StrLess(x, y)
         IN  <<m>> \o sorted(S \ {m})

RECURSIVE Reverse(_)
Reverse(s) == IF s = <<>> THEN <<>> ELSE Reverse(Tail(s)) \o <<Head(s)>>

\* The order in which a set of strings is iterated depends on the string hashes of
\* the process; the model lets a run iterate every set one of these ways.
SetOrders == {"ascending", "descending"}

\* list(S) under iteration order ord
Iterate(S, ord) == IF ord = "ascending" THEN sorted(S) ELSE Reverse(sorted(S))

\* str(S) for a set of strings
str_of_set(S, ord) ==
    IF S = {} THEN <<"s", "e", "t", "(", ")">>
    ELSE <<"{">> \o join(<<",", " ">>, MapSeq(repr, Iterate(S, ord))) \o <<"}">>

-----------------------------------------------------------------------------
(* thefuzz.fuzz, which scores through rapidfuzz *)

Max(a, b) == IF a >= b THEN a ELSE b

SetMax(S) == CHOOSE x \in S : \A y \in S : y <= x

\* One row of the longest-common-subsequence table, for character x of a against b;
\* prev is the row above and column j is kept at index j + 1.  The entry of column j
\* is the largest of 0 and, for k in 1..j, prev(k - 1) + 1 if x = b[k] and prev(k) if not.
LcsRow(x, b, prev) ==
    [j1 \in 1..(Len(b) + 1) |->
        SetMax({0} \cup {IF x = b[k] THEN prev[k] + 1 ELSE prev[k + 1] : k \in 1..(j1 - 1)})]
        \o <<>>

RECURSIVE LcsRows(_, _, _)
LcsRows(a, b, prev) ==
    IF a = <<>> THEN prev
    ELSE CHOOSE last \in {LcsRows(Tail(a), b, row) : row \in {LcsRow(Head(a), b, prev)}} : TRUE

\* length of the longest common subsequence of a and b
Lcs(a, b) == LcsRows(a, b, [j1 \in 1..(Len(b) + 1) |-> 0] \o <<>>)[Len(b) + 1]

\* Indel distance: insertions and deletions turning a into b
indel_distance(a, b) ==
    CHOOSE d \in {Len(x) + Len(y) - 2 * Lcs(x, y) : x \in {a}, y \in {b}} : TRUE

\* A similarity 100 - 100 * dist / lensum as the fraction <<numerator, denominator>>
norm_distance(dist, lensum) ==
    IF lensum = 0 THEN <<100, 1>> ELSE <<100 * (lensum - dist), lensum>>

FracMax(x, y) == IF x[1] * y[2] >= y[1] * x[2] THEN x ELSE y

\* int(round(x))
int_round(x) == RoundHalfEven(x[1], x[2])

IsAlnum(c) == c \in Digits \/ c \in LowerSet \/ c \in UpperSet

\* utils.full_process(s, force_ascii=True): every character that is no letter and no
\* digit becomes a blank, the rest is lower-cased and stripped
full_process(s) ==
    strip(MapSeq(LAMBDA c : IF IsAlnum(c) THEN LowerChar(c) ELSE " ", s))

\* rapidfuzz.fuzz.ratio
ratio(a, b) ==
    CHOOSE r \in {norm_distance(indel_distance(x, y), Len(x) + Len(y)) : x \in {a}, y \in {b}} :
        TRUE

RECURSIVE Insert(_, _)
Insert(x, s) ==
    IF s = <<>> THEN <<x>>
    ELSE IF StrLess(Head(s), x) THEN <<Head(s)>> \o Insert(x, Tail(s))
    ELSE <<x>> \o s

\* sorted(l) for a list of strings
RECURSIVE sort_list(_)
sort_list(l) == IF l = <<>> THEN <<>> ELSE Insert(Head(l), sort_list(Tail(l)))

\* fuzz.token_sort_ratio(s1, s2): ratio of the strings with their words sorted
token_sort_ratio(s1, s2) ==
    int_round(ratio(join(<<" ">>, sort_list(split(full_process(s1)))),
                    join(<<" ">>, sort_list(split(full_process(s2))))))

\* token_set_ratio on the two sets of words
token_set_score(tokens_a, tokens_b) ==
    LET intersect == tokens_a \cap tokens_b
        diff_ab == join(<<" ">>, sorted(tokens_a \ tokens_b))
        diff_ba == join(<<" ">>, sorted(tokens_b \ tokens_a))
        sect_len == Len(join(<<" ">>, sorted(intersect)))
        sep == IF sect_len # 0 THEN 1 ELSE 0
        sect_ab_len == sect_len + sep + Len(diff_ab)
        sect_ba_len == sect_len + sep + Len(diff_ba)
        result == norm_distance(indel_distance(diff_ab, diff_ba), sect_ab_len + sect_ba_len)
        sect_ab_ratio == norm_distance(sep + Len(diff_ab), sect_len + sect_ab_len)
        sect_ba_ratio == norm_distance(sep + Len(diff_ba), sect_len + sect_ba_len)
    IN  IF tokens_a = {} \/ tokens_b = {} THEN 0
        ELSE IF intersect # {} /\ (tokens_a \subseteq tokens_b \/ tokens_b \subseteq tokens_a)
        THEN 100
        ELSE IF sect_len = 0 THEN int_round(result)
        ELSE int_round(FracMax(result, FracMax(sect_ab_ratio, sect_ba_ratio)))

\* fuzz.token_set_ratio(s1, s2)
token_set_ratio(s1, s2) ==
    CHOOSE r \in {token_set_score(ta, tb) : ta \in {Range(split(full_process(s1)))},
                                           tb \in {Range(split(full_process(s2)))}} : TRUE

-----------------------------------------------------------------------------
(* Field validators for text and container numbers *)

RECURSIVE CollapseSpaces(_)
\* re.sub(r'\s+', ' ', text)
CollapseSpaces(s) ==
    IF s = <<>> THEN <<>>
    ELSE IF Head(s) \in Whitespace
         THEN <<" ">> \o CollapseSpaces(lstrip(s))
         ELSE <<Head(s)>> \o CollapseSpaces(Tail(s))

FuzzyPunctuation == {"\n", "\t", ",", ".", ":", ";", "(", ")"}

\* the normalizer that strips the text first and not after collapsing the blanks
normalize_string_for_fuzzy_strip_first(text) ==
    LET t0 == strip(lower(str(text)))
        t1 == MapSeq(LAMBDA c : IF c \in FuzzyPunctuation THEN " " ELSE c, t0)
        t2 == SelectSeq(t1, LAMBDA c : c \in LowerSet \/ c \in Digits \/ c \in Whitespace)
    IN  CollapseSpaces(t2)

normalize_string_for_fuzzy(text) ==
    LET t0 == lower(str(text))
        t1 == MapSeq(LAMBDA c : IF c \in FuzzyPunctuation THEN " " ELSE c, t0)
        t2 == SelectSeq(t1, LAMBDA c : c \in LowerSet \/ c \in Digits \/ c \in Whitespace)
    IN  strip(CollapseSpaces(t2))

\* to_set whose list branch keeps the letter case
to_set_list_keeps_case(value) ==
    CASE value.kind = "list" -> {strip(value.list[i]) : i \in DOMAIN value.list}
      [] value.kind = "str"  -> {upper(strip(v)) : v \in Range(re_split_ws_comma(value.str))}
      [] OTHER -> {}

\* validate_container_field.to_set
to_set(value) ==
    CASE value.kind = "list" -> {upper(strip(value.list[i])) : i \in DOMAIN value.list}
      [] value.kind = "str"  -> {upper(strip(v)) : v \in Range(re_split_ws_comma(value.str))}
      [] OTHER -> {}

\* ", ".join(S) for a set S iterated in order ord
JoinSet(S, ord) == join(<<",", " ">>, Iterate(S, ord))

\* the two differences taken the other way round
container_verdict_swapped_differences(source_set, target_set, score, ord) ==
    LET missing == target_set \ source_set
        extra == source_set \ target_set
        n1 == IF missing # {}
              THEN <<Lit("Missing from target: "), Val(JoinSet(missing, ord))>> ELSE <<>>
        n2 == IF extra # {}
              THEN <<Lit("Extra in target: "), Val(JoinSet(extra, ord))>> ELSE <<>>
        notes == IF n1 # <<>> /\ n2 # <<>> THEN n1 \o <<Lit(". ")>> \o n2 ELSE n1 \o n2
    IN  IF source_set = target_set THEN ResultStatusScore("MATCHED_EXACTLY", 100)
        ELSE IF score > 85 THEN ResultStatusScoreNotes("MATCHED_MOSTLY", score, notes)
        ELSE ResultStatusScoreNotes("DOES_NOT_MATCH", score, notes)

\* the verdict of validate_container_field on the two sets
container_verdict(source_set, target_set, score, ord) ==
    LET missing == source_set \ target_set
        extra == target_set \ source_set
        n1 == IF missing # {}
              THEN <<Lit("Missing from target: "), Val(JoinSet(missing, ord))>> ELSE <<>>
        n2 == IF extra # {}
              THEN <<Lit("Extra in target: "), Val(JoinSet(extra, ord))>> ELSE <<>>
        notes == IF n1 # <<>> /\ n2 # <<>> THEN n1 \o <<Lit(". ")>> \o n2 ELSE n1 \o n2
    IN  IF source_set = target_set THEN ResultStatusScore("MATCHED_EXACTLY", 100)
        ELSE IF score > 85 THEN ResultStatusScoreNotes("MATCHED_MOSTLY", score, notes)
        ELSE ResultStatusScoreNotes("DOES_NOT_MATCH", score, notes)

validate_container_field(source, target, ord) ==
    CHOOSE r \in {container_verdict(source_set, target_set,
                      token_set_ratio(str_of_set(source_set, ord), str_of_set(target_set, ord)),
                      ord) :
                  source_set \in {to_set(source)}, target_set \in {to_set(target)}} : TRUE

\* the verdict of validate_partial_match_field on the normalized strings
partial_match_verdict(norm_source, norm_target, score) ==
    IF norm_source = norm_target THEN ResultStatusScore("MATCHED_EXACTLY", 100)
    ELSE IF score > 80
    THEN ResultStatusScoreNotes("MATCHED_MOSTLY", score,
             <<Lit("Values are highly similar (Score: "), Val(IntToStr(score)),
               Lit("%). This may be an abbreviation match.")>>)
    ELSE ResultStatusScoreNotes("DOES_NOT_MATCH", score,
             <<Lit("Values are significantly different (Score: "), Val(IntToStr(score)),
               Lit("%).")>>)

\* the partial-match validator scoring with token_sort_ratio
validate_partial_match_field_sort_score(source, target) ==
    CHOOSE r \in {partial_match_verdict(norm_source, norm_target,
                      CHOOSE sc \in {token_sort_ratio(norm_source, norm_target)} : TRUE) :
                  norm_source \in {normalize_string_for_fuzzy(PyStr(str(source)))},
                  norm_target \in {normalize_string_for_fuzzy(PyStr(str(target)))}} : TRUE

validate_partial_match_field(source, target) ==
    CHOOSE r \in {partial_match_verdict(norm_source, norm_target,
                      CHOOSE sc \in {token_set_ratio(norm_source, norm_target)} : TRUE) :
                  norm_source \in {normalize_string_for_fuzzy(PyStr(str(source)))},
                  norm_target \in {normalize_string_for_fuzzy(PyStr(str(target)))}} : TRUE

\* the verdict taken from the lower of the two scores
generic_verdict_lower_score(norm_source, norm_target, sort_score, set_score, ord) ==
    LET final_score == IF sort_score <= set_score THEN sort_score ELSE set_score
        source_words == Range(split(norm_source))
        target_words == Range(split(norm_target))
        missing_words == source_words \ target_words
        extra_words == target_words \ source_words
        d1 == IF missing_words # {}
              THEN <<Lit("Words in source not in target: "), Val(JoinSet(missing_words, ord))>>
              ELSE <<>>
        d2 == IF extra_words # {}
              THEN <<Lit("Words in target not in source: "), Val(JoinSet(extra_words, ord))>>
              ELSE <<>>
        diff_notes == IF d1 # <<>> /\ d2 # <<>> THEN d1 \o <<Lit(" ")>> \o d2 ELSE d1 \o d2
    IN  IF norm_source = norm_target
        THEN ResultStatusScoreNotes("MATCHED_CONTENT_ONLY", 99,
                 <<Lit("Content matches, but formatting (e.g., punctuation, case) differs.")>>)
        ELSE IF final_score > 95
        THEN ResultStatusScoreNotes("MATCHED_MOSTLY", final_score,
                 <<Lit("One address appears to be a perfect or near-perfect subset of the other.")>>)
        ELSE IF final_score > 75
        THEN ResultStatusScoreNotes("MATCHED_MOSTLY", final_score,
                 <<Lit("Values are highly similar but have notable differences.")>>)
        ELSE ResultStatusScoreNotes("DOES_NOT_MATCH", final_score, diff_notes)

\* the verdict that reports equal normalized strings as an exact match
generic_verdict_exact_on_equal(norm_source, norm_target, sort_score, set_score, ord) ==
    LET final_score == Max(sort_score, set_score)
        source_words == Range(split(norm_source))
        target_words == Range(split(norm_target))
        missing_words == source_words \ target_words
        extra_words == target_words \ source_words
        d1 == IF missing_words # {}
              THEN <<Lit("Words in source not in target: "), Val(JoinSet(missing_words, ord))>>
              ELSE <<>>
        d2 == IF extra_words # {}
              THEN <<Lit("Words in target not in source: "), Val(JoinSet(extra_words, ord))>>
              ELSE <<>>
        diff_notes == IF d1 # <<>> /\ d2 # <<>> THEN d1 \o <<Lit(" ")>> \o d2 ELSE d1 \o d2
    IN  IF norm_source = norm_target
        THEN ResultStatusScore("MATCHED_EXACTLY", 100)
        ELSE IF final_score > 95
        THEN ResultStatusScoreNotes("MATCHED_MOSTLY", final_score,
                 <<Lit("One address appears to be a perfect or near-perfect subset of the other.")>>)
        ELSE IF final_score > 75
        THEN ResultStatusScoreNotes("MATCHED_MOSTLY", final_score,
                 <<Lit("Values are highly similar but have notable differences.")>>)
        ELSE ResultStatusScoreNotes("DOES_NOT_MATCH", final_score, diff_notes)

\* the verdict of validate_generic_field on the normalized strings and their scores
generic_verdict(norm_source, norm_target, sort_score, set_score, ord) ==
    LET final_score == Max(sort_score, set_score)
        source_words == Range(split(norm_source))
        target_words == Range(split(norm_target))
        missing_words == source_words \ target_words
        extra_words == target_words \ source_words
        d1 == IF missing_words # {}
              THEN <<Lit("Words in source not in target: "), Val(JoinSet(missing_words, ord))>>
              ELSE <<>>
        d2 == IF extra_words # {}
              THEN <<Lit("Words in target not in source: "), Val(JoinSet(extra_words, ord))>>
              ELSE <<>>
        diff_notes == IF d1 # <<>> /\ d2 # <<>> THEN d1 \o <<Lit(" ")>> \o d2 ELSE d1 \o d2
    IN  IF norm_source = norm_target
        THEN ResultStatusScoreNotes("MATCHED_CONTENT_ONLY", 99,
                 <<Lit("Content matches, but formatting (e.g., punctuation, case) differs.")>>)
        ELSE IF final_score > 95
        THEN ResultStatusScoreNotes("MATCHED_MOSTLY", final_score,
                 <<Lit("One address appears to be a perfect or near-perfect subset of the other.")>>)
        ELSE IF final_score > 75
        THEN ResultStatusScoreNotes("MATCHED_MOSTLY", final_score,
                 <<Lit("Values are highly similar but have notable differences.")>>)
        ELSE ResultStatusScoreNotes("DOES_NOT_MATCH", final_score, diff_notes)

validate_generic_field(source, target, is_multi_line, ord) ==
    CHOOSE r \in {generic_verdict(norm_source, norm_target,
                      CHOOSE sc \in {token_sort_ratio(norm_source, norm_target)} : TRUE,
                      CHOOSE sc \in {token_set_ratio(norm_source, norm_target)} : TRUE, ord) :
                  norm_source \in {normalize_string_for_fuzzy(PyStr(str(source)))},
                  norm_target \in {normalize_string_for_fuzzy(PyStr(str(target)))}} : TRUE

-----------------------------------------------------------------------------
(* Field classification registry *)

MULTI_LINE_FIELDS == {"exporter_address", "consignee_details", "notify_party_details",
                      "invoice_party_details", "banking_details"}

INTEGER_FIELDS == {"total_cartons"}

FLOAT_FIELDS == {"total_gross_mass_kg", "total_net_mass_kg"}

CURRENCY_FIELDS == {"total_value"}

CONTAINER_FIELDS == {"container_number"}

SIMPLE_TEXT_FIELDS == {"vessel_name", "voyage", "port_of_destination"}

PARTIAL_MATCH_FIELDS == {"port_of_destination"}

ProfileNames == {"bill_of_lading", "phyto_certificate", "eur1", "certificate_of_origin",
                 "packing_list", "ppecb"}

\* VALIDATION_PROFILES[name]["required_fields"]
VALIDATION_PROFILES == [name \in ProfileNames |->
    CASE name = "bill_of_lading" ->
            {"exporter_address", "consignee_details", "notify_party_details",
             "container_number", "vessel_name", "voyage", "port_of_destination",
             "total_cartons", "total_gross_mass_kg", "total_net_mass_kg"}
      [] name = "phyto_certificate" ->
            {"exporter_address", "consignee_details", "container_number",
             "port_of_destination", "total_cartons", "total_net_mass_kg",
             "total_gross_mass_kg"}
      [] name = "eur1" ->
            {"exporter_address", "consignee_details", "vessel_name", "voyage",
             "port_of_destination", "container_number", "total_cartons",
             "total_gross_mass_kg", "total_net_mass_kg"}
      [] name = "certificate_of_origin" ->
            {"exporter_address", "consignee_details", "container_number",
             "total_gross_mass_kg", "total_cartons"}
      [] name = "packing_list" ->
            {"exporter_address", "consignee_details", "notify_party_details",
             "invoice_party_details", "container_number", "vessel_name",
             "port_of_destination", "total_cartons", "total_gross_mass_kg",
             "total_net_mass_kg"}
      [] name = "ppecb" ->
            {"exporter_address", "container_number", "voyage", "vessel_name",
             "port_of_destination", "total_cartons", "total_gross_mass_kg",
             "total_net_mass_kg"}]

\* a lookup that falls back on the bill-of-lading profile for an unknown tag
required_fields_default_profile(doc_type) ==
    IF doc_type \in ProfileNames THEN VALIDATION_PROFILES[doc_type]
    ELSE VALIDATION_PROFILES["bill_of_lading"]

\* VALIDATION_PROFILES.get(target_doc_type, {}).get("required_fields", [])
required_fields_for_target(doc_type) ==
    IF doc_type \in ProfileNames THEN VALIDATION_PROFILES[doc_type] ELSE {}

-----------------------------------------------------------------------------
(* The dispatcher *)

\* d.get(key) on a dict held as a sequence of <<key, value>>
DictGet(d, key) ==
    IF \E i \in DOMAIN d : d[i][1] = key
    THEN d[CHOOSE i \in DOMAIN d : d[i][1] = key][2]
    ELSE PyNone

DictKeys(d) == {d[i][1] : i \in DOMAIN d}

\* an assignment that puts a new key in front of the others
DictSet_new_key_first(d, key, value) ==
    IF \E i \in DOMAIN d : d[i][1] = key
    THEN [i \in DOMAIN d |-> IF d[i][1] = key THEN <<key, value>> ELSE d[i]] \o <<>>
    ELSE <<<<key, value>>>> \o d

\* d[key] = value: a new key goes to the end, a known key keeps its place
DictSet(d, key, value) ==
    IF \E i \in DOMAIN d : d[i][1] = key
    THEN [i \in DOMAIN d |-> IF d[i][1] = key THEN <<key, value>> ELSE d[i]] \o <<>>
    ELSE Append(d, <<key, value>>)

\* the test without .strip(): a target of blanks counts as present
IsMissing_no_strip(value) == value.kind = "none" \/ str(value) = <<>>

\* an empty list counted as a missing value too
IsMissing_empty_list(value) ==
    value.kind = "none" \/ strip(str(value)) = <<>> \/ value = PyList(<<>>)

\* target_value is None or str(target_value).strip() == ""
IsMissing(value) == value.kind = "none" \/ strip(str(value)) = <<>>

\* the chain with the simple-text list tested ahead of the partial-match list
Dispatch_simple_text_first(key) ==
    IF key \in INTEGER_FIELDS THEN "validate_integer_field"
    ELSE IF key \in FLOAT_FIELDS THEN "validate_float_field"
    ELSE IF key \in CURRENCY_FIELDS THEN "validate_currency_field"
    ELSE IF key \in CONTAINER_FIELDS THEN "validate_container_field"
    ELSE IF key \in SIMPLE_TEXT_FIELDS THEN "validate_generic_field"
    ELSE IF key \in PARTIAL_MATCH_FIELDS THEN "validate_partial_match_field"
    ELSE "validate_generic_field"

\* the if/elif chain that picks the validator of a present field
Dispatch(key) ==
    IF key \in INTEGER_FIELDS THEN "validate_integer_field"
    ELSE IF key \in FLOAT_FIELDS THEN "validate_float_field"
    ELSE IF key \in CURRENCY_FIELDS THEN "validate_currency_field"
    ELSE IF key \in CONTAINER_FIELDS THEN "validate_container_field"
    ELSE IF key \in PARTIAL_MATCH_FIELDS THEN "validate_partial_match_field"
    ELSE "validate_generic_field"

RunValidator(name, key, source, target, ord) ==
    CASE name = "validate_integer_field" -> validate_integer_field(source, target)
      [] name = "validate_float_field" -> validate_float_field(source, target)
      [] name = "validate_currency_field" -> validate_currency_field(source, target)
      [] name = "validate_container_field" -> validate_container_field(source, target, ord)
      [] name = "validate_partial_match_field" -> validate_partial_match_field(source, target)
      [] name = "validate_generic_field" ->
            validate_generic_field(source, target, key \in MULTI_LINE_FIELDS, ord)

\* the entry stored for a missing target value
MissingEntry(key, source, target, required) ==
    [keys |-> {"source_value", "target_value", "status", "score", "notes"},
     status |-> IF key \in required THEN "MISSING_REQUIRED_FIELD" ELSE "NOT_APPLICABLE",
     score |-> NoScore,
     notes |-> IF key \in required
               THEN <<Lit("This required field is missing from the document.")>>
               ELSE <<Lit("This field is not applicable to this document type.")>>,
     source_value |-> source, target_value |-> target]

\* the values stored as the text the validators coerce them to
ValidatedEntry_coerced_values(field, source, target) ==
    [keys |-> field.keys \cup {"source_value", "target_value"},
     status |-> field.status, score |-> field.score, notes |-> field.notes,
     source_value |-> PyStr(str(source)), target_value |-> PyStr(str(target))]

\* field_result with "source_value" and "target_value" added
ValidatedEntry(field, source, target) ==
    [keys |-> field.keys \cup {"source_value", "target_value"},
     status |-> field.status, score |-> field.score, notes |-> field.notes,
     source_value |-> source, target_value |-> target]

\* one pass of the loop body for source item <<key, source>>, on the state acc of the call
ValidateField(key, source, target, required, ord, acc) ==
    LET tv == DictGet(target, key)
        name == Dispatch(key)
        call == [validator |-> name, key |-> key, source_value |-> source, target_value |-> tv]
    IN  IF IsMissing(tv)
        THEN [acc EXCEPT !.report = DictSet(@, key, MissingEntry(key, source, tv, required))]
        ELSE CHOOSE next \in
                 {IF field.exc # ""
                  THEN [exc |-> field.exc, report |-> <<>>, calls |-> Append(acc.calls, call)]
                  ELSE [acc EXCEPT !.report = DictSet(@, key, ValidatedEntry(field, source, tv)),
                                   !.calls = Append(@, call)] :
                  field \in {RunValidator(name, key, source, tv, ord)}} : TRUE

RECURSIVE ValidateLoop(_, _, _, _, _, _)
\* the for loop over source_of_truth.items(), from item i on; an exception ends it
ValidateLoop(items, i, target, required, ord, acc) ==
    IF i > Len(items) \/ acc.exc # "" THEN acc
    ELSE CHOOSE last \in
             {ValidateLoop(items, i + 1, target, required, ord, next) :
              next \in {ValidateField(items[i][1], items[i][2], target, required, ord, acc)}} :
             TRUE

\* the loop run over the items of the target document instead of the source of truth
validate_documents_over_target(source, target, doc_type, ord) ==
    ValidateLoop(target, 1, target, required_fields_for_target(doc_type), ord,
                 [exc |-> "", report |-> <<>>, calls |-> <<>>])

\* the loop followed by a NOT_APPLICABLE entry for every field only the target holds
validate_documents_with_target_only_fields(source, target, doc_type, ord) ==
    LET r == ValidateLoop(source, 1, target, required_fields_for_target(doc_type), ord,
                          [exc |-> "", report |-> <<>>, calls |-> <<>>])
        only == SelectSeq(target, LAMBDA item : item[1] \notin DictKeys(source))
    IN  IF r.exc # "" THEN r
        ELSE [r EXCEPT !.report =
                 @ \o [i \in DOMAIN only |->
                          <<only[i][1], MissingEntry(only[i][1], PyNone, only[i][2], {})>>]]

\* validate_documents(source_of_truth, target_doc, target_doc_type): exc names the
\* exception that left the call ("" when it returned report)
validate_documents(source, target, doc_type, ord) ==
    ValidateLoop(source, 1, target, required_fields_for_target(doc_type), ord,
                 [exc |-> "", report |-> <<>>, calls |-> <<>>])

-----------------------------------------------------------------------------
(* The banking check of the application (src/app.py) *)

\* d.get(key, default)
DictGetDefault(d, key, default) ==
    IF \E i \in DOMAIN d : d[i][1] = key
    THEN d[CHOOSE i \in DOMAIN d : d[i][1] = key][2]
    ELSE default

\* sub in s
Contains(sub, s) ==
    \E i \in 1..(Len(s) - Len(sub) + 1) : SubSeq(s, i, i + Len(sub) - 1) = sub

\* the chain with the test for "usd" ahead of the test for "euro"
expected_currency_usd_first(banking_details_lower) ==
    IF Contains(<<"u", "s", "d">>, banking_details_lower) THEN "USD"
    ELSE IF Contains(<<"e", "u", "r", "o">>, banking_details_lower) THEN "EUR"
    ELSE IF Contains(<<"u", "k">>, banking_details_lower) \/ Contains(<<"g", "b", "p">>, banking_details_lower)
    THEN "GBP"
    ELSE "None"

\* the if/elif chain that sets expected_currency; "None" when no keyword is found
expected_currency(banking_details_lower) ==
    IF Contains(<<"e", "u", "r", "o">>, banking_details_lower) THEN "EUR"
    ELSE IF Contains(<<"u", "s", "d">>, banking_details_lower) THEN "USD"
    ELSE IF Contains(<<"u", "k">>, banking_details_lower) \/ Contains(<<"g", "b", "p">>, banking_details_lower)
    THEN "GBP"
    ELSE "None"

\* the if/elif chain that sets actual_currency_found
actual_currency_found(expected, total_value_text) ==
    \/ expected = "EUR" /\ Contains(<<"€">>, total_value_text)
    \/ expected = "USD" /\ Contains(<<"$">>, total_value_text)
    \/ expected = "GBP" /\ Contains(<<"£">>, total_value_text)

\* the dictionary the banking check returns
BankingResult(st, n, keys, banking_details_text, total_value_text) ==
    [exc |-> "", keys |-> keys, status |-> st, notes |-> n,
     banking_details |-> banking_details_text, total_value |-> total_value_text]

\* validate_banking_details(ci_data); .lower() on a value that is no str raises
\* AttributeError
validate_banking_details(ci_data) ==
    LET banking_details_text == DictGetDefault(ci_data, "banking_details", PyStr(<<>>))
        total_value_text == str(DictGetDefault(ci_data, "total_value", PyStr(<<>>)))
        expected == expected_currency(lower(banking_details_text.str))
        all_keys == {"status", "notes", "banking_details", "total_value"}
    IN  IF banking_details_text.kind # "str"
        THEN [exc |-> "AttributeError", keys |-> {}, status |-> "", notes |-> NoNotes,
              banking_details |-> PyNone, total_value |-> <<>>]
        ELSE IF expected = "None"
        THEN BankingResult("NOT_APPLICABLE",
                 <<Lit("Banking details do not specify a checkable currency (Euro, USD, UK/GBP).")>>,
                 {"status", "notes"}, PyNone, <<>>)
        ELSE IF actual_currency_found(expected, total_value_text)
        THEN BankingResult("MATCH",
                 <<Lit("Correct "), Lit(expected), Lit(" banking details used for the "),
                   Lit(expected), Lit(" invoice total.")>>,
                 all_keys, banking_details_text, total_value_text)
        ELSE BankingResult("MISMATCH",
                 <<Lit("Mismatch detected: Banking details are for "), Lit(expected),
                   Lit(", but the invoice total currency does not match.")>>,
                 all_keys, banking_details_text, total_value_text)

-----------------------------------------------------------------------------
(* Consolidation of two extractions (src/processors/json_formatter.py) *)

\* an Optional[Dict]: None
NoneDict == [is_none |-> TRUE, items |-> <<>>]

\* an Optional[Dict]: the dict d
SomeDict(d) == [is_none |-> FALSE, items |-> d]

\* the call's result and what the base dictionary holds after the call
consolidate_extractions(base_extraction, agent_fallback) ==
    IF base_extraction.is_none
    THEN [result |-> agent_fallback, base_after |-> base_extraction]
    ELSE IF agent_fallback.is_none
    THEN [result |-> base_extraction, base_after |-> base_extraction]
    ELSE LET copy == base_extraction.items
             consolidated_result ==
                 [i \in DOMAIN copy |->
                     IF copy[i][2] = PyNone /\ DictGet(agent_fallback.items, copy[i][1]) # PyNone
                     THEN <<copy[i][1], DictGet(agent_fallback.items, copy[i][1])>>
                     ELSE copy[i]] \o <<>>
         IN  [result |-> SomeDict(consolidated_result), base_after |-> base_extraction]

-----------------------------------------------------------------------------
(* Inputs *)

MaxNumLen == 2

MaxFields == 2

MaxContainers == 2

Repeat(c, n) == [i \in 1..n |-> c] \o <<>>

\* every string over alphabet of length at most n
RECURSIVE AllStrings(_, _)
AllStrings(alphabet, n) ==
    IF n = 0 THEN {<<>>}
    ELSE LET shorter == AllStrings(alphabet, n - 1)
         IN  shorter \cup {Append(s, c) : s \in shorter, c \in alphabet}

\* a whole number too large for a double
HugeDigits == <<"1">> \o Repeat("0", DBL_MAX_10_EXP + 1)

NumericSamples ==
    {<<"1", ",", "2", "3", "4">>, <<"1", "2", "3", "4">>, <<"1", "0", "0">>, <<"a", "b", "c">>, <<"1", "0", "0", ".", "0", "0">>, <<"1", "0", "0", ".", "5">>, <<"1", "0", "2", ".", "5">>,
     <<"$", "1", ",", "0", "0", "0", ".", "0", "0">>, <<"1", "0", "0", "0", ".", "0", "0">>, <<"9", "9">>, <<"1", "0", "1">>, <<"0">>, <<"0", ".", "0">>, <<"-", "0">>, <<"-", "1", "0", "0">>, <<"-", "1", "0", "0", ".", "5">>, <<"-", "9", "9">>,
     <<"1", "2", "0", ".", "7", " ", "k", "g">>, <<"1", ".", "2", ".", "3">>, <<"1", "2", ".", "9">>, HugeDigits}

NumericAlphabet == {"1", "5", ".", "-", ","}

\* the values a numeric validator is applied to
NumericInputs ==
    {PyNone} \cup {PyStr(s) : s \in NumericSamples \cup AllStrings(NumericAlphabet, MaxNumLen)}

MaxTextLen == 3

\* a letter of each case, a digit, blanks, punctuation the normalizer turns into a
\* blank (".") and punctuation it deletes ("-")
FuzzyAlphabet == {"a", "B", "1", " ", "\n", ".", "-"}

\* the strings normalize_string_for_fuzzy is applied to
FuzzyInputs == AllStrings(FuzzyAlphabet, MaxTextLen)

TextSamples ==
    {<<"N", "e", "t", "h", "e", "r", "l", "a", "n", "d", "s">>, <<"N", "L">>, <<"R", "o", "t", "t", "e", "r", "d", "a", "m", ",", " ", "N", "L">>, <<"R", "O", "T", "T", "E", "R", "D", "A", "M">>, <<"R", "o", "t", "t", "e", "r", "d", "a", "m">>,
     <<"R", "o", "t", "t", "e", "r", "d", "a", "m", " ", "N", "e", "t", "h", "e", "r", "l", "a", "n", "d", "s">>, <<"A", "n", "t", "w", "e", "r", "p">>, <<"A", "c", "m", "e", " ", "F", "a", "r", "m", "s", " ", "(", "P", "t", "y", ")", " ", "L", "t", "d">>, <<"A", "C", "M", "E", " ", "F", "A", "R", "M", "S", " ", "L", "T", "D", ".">>,
     <<"A", "c", "m", "e", " ", "F", "a", "r", "m", " ", "L", "t", "d">>, <<"A", "c", "m", "e", " ", "F", "o", "o", "d", "s", " ", "L", "t", "d", ",", " ", "P", "a", "a", "r", "l">>, <<"V", ".", " ", "0", "2", "5", "N">>, <<"v", " ", "0", "2", "5", "n">>, <<"-", "-", "-">>, <<>>}

\* the values a text validator is applied to
TextInputs == {PyNone} \cup {PyStr(s) : s \in TextSamples}

\* what the invoice can hold as banking details
BankingDetailsSamples ==
    {<<"B", "a", "n", "k", ":", " ", "A", "B", "S", "A", ",", " ", "E", "u", "r", "o", " ", "a", "c", "c", "o", "u", "n", "t">>, <<"E", "U", "R", "O">>, <<"U", "S", "D", " ", "a", "c", "c", "o", "u", "n", "t">>, <<"P", "a", "y", " ", "i", "n", " ", "u", "s", "d", " ", "o", "r", " ", "E", "u", "r", "o">>, <<"G", "B", "P">>,
     <<"U", "K", " ", "b", "r", "a", "n", "c", "h">>, <<"D", "u", "k", "e", " ", "S", "t", "r", "e", "e", "t">>, <<"I", "B", "A", "N", " ", "1", "2", "3">>, <<"B", "a", "n", "k", ":", " ", "Z", "A", "R">>, <<>>}

\* what the invoice can hold as total value
TotalValueSamples ==
    {<<"€", "1", "2", "0", ".", "0", "0">>, <<"$", "1", "2", "0", ".", "0", "0">>, <<"£", "1", "2", "0", ".", "0", "0">>, <<"1", "2", "0", ".", "0", "0">>, <<"R", " ", "1", "2", "0", ".", "0", "0">>, <<"$", " ", "o", "r", " ", "€">>, <<>>}

\* a dict with the key, once for each value, and the dict without the key
OptionalItem(key, values) == {<<>>} \cup {<<<<key, v>>>> : v \in values}

\* the mappings the banking check is applied to
BankingInputs ==
    {b \o v : b \in OptionalItem("banking_details",
                                  {PyNone} \cup {PyStr(s) : s \in BankingDetailsSamples}),
              v \in OptionalItem("total_value",
                                  {PyNone} \cup {PyStr(s) : s \in TotalValueSamples})}

\* container numbers, as the documents print them
ContainerNumbers == {<<"M", "A", "E", "U", "1", "2", "3", "4", "5", "6", "7">>, <<"M", "A", "E", "U", "7", "6", "5", "4", "3", "2", "1">>}

Separators == {<<",", " ">>, <<",">>, <<" ">>, <<"\n">>}

\* one way of writing down a list of container numbers
Styles ==
    [form : {"list"}, sep : {<<",", " ">>}, lowercase : BOOLEAN, padded : BOOLEAN]
        \cup [form : {"str"}, sep : Separators, lowercase : BOOLEAN, padded : BOOLEAN]

\* the value a document holds for the container numbers ns written in style st
Render(ns, st) ==
    LET cased == IF st.lowercase THEN MapSeq(lower, ns) ELSE ns
        pad(s) == IF st.padded THEN <<" ">> \o s \o <<" ">> ELSE s
    IN  IF st.form = "list" THEN PyList(MapSeq(pad, cased))
        ELSE PyStr(pad(join(st.sep, cased)))

RECURSIVE SeqsUpTo(_, _)
\* every sequence over S of length at most n
SeqsUpTo(S, n) ==
    IF n = 0 THEN {<<>>}
    ELSE LET shorter == SeqsUpTo(S, n - 1)
         IN  shorter \cup {Append(s, x) : s \in shorter, x \in S}

\* the fields validate_documents is run on, one or two of each category
DispatchKeys == {"total_cartons", "total_gross_mass_kg", "total_value", "container_number",
                 "port_of_destination", "voyage", "exporter_address"}

\* what the commercial invoice can hold for a field
SourceValues(key) ==
    CASE key = "total_cartons" -> {PyNone, PyStr(<<"1", ",", "2", "3", "4">>)}
      [] key = "total_gross_mass_kg" -> {PyStr(<<"1", "0", "0", ".", "0", "0">>)}
      [] key = "total_value" -> {PyStr(<<"$", "1", ",", "0", "0", "0", ".", "0", "0">>)}
      [] key = "container_number" -> {PyList(<<<<"M", "A", "E", "U", "1", "2", "3", "4", "5", "6", "7">>, <<"M", "A", "E", "U", "7", "6", "5", "4", "3", "2", "1">>>>)}
      [] key = "port_of_destination" -> {PyStr(<<"R", "o", "t", "t", "e", "r", "d", "a", "m", ",", " ", "N", "L">>)}
      [] key = "voyage" -> {PyStr(<<"V", ".", " ", "0", "2", "5", "N">>)}
      [] key = "exporter_address" -> {PyStr(<<"A", "c", "m", "e", " ", "F", "a", "r", "m", "s", " ", "(", "P", "t", "y", ")", " ", "L", "t", "d">>)}

\* what a target document can hold for a field (besides not having the key)
TargetValues(key) ==
    CASE key = "total_cartons" -> {PyStr(<<"1", "2", "3", "4">>), PyStr(<<"a", "b", "c">>), PyStr(HugeDigits)}
      [] key = "total_gross_mass_kg" -> {PyStr(<<" ", " ">>), PyStr(<<"1", "0", "0", ".", "5">>)}
      [] key = "total_value" -> {PyNone, PyStr(<<"1", "0", "0", "0", ".", "0", "0">>)}
      [] key = "container_number" -> {PyStr(<<"M", "A", "E", "U", "1", "2", "3", "4", "5", "6", "7", ",", " ", "M", "A", "E", "U", "7", "6", "5", "4", "3", "2", "1">>), PyList(<<>>), PyStr(<<",", " ">>), PyList(<<<<"M", "A", "E", "U", "7", "6", "5", "4", "3", "2", "1">>>>), PyStr(<<"T", "C", "L", "U", "1", "1", "1", "1", "1", "1", "1">>)}
      [] key = "port_of_destination" -> {PyStr(<<"R", "O", "T", "T", "E", "R", "D", "A", "M">>)}
      [] key = "voyage" -> {PyStr(<<"v", " ", "0", "2", "5", "n">>), PyStr(<<"V", ".", " ", "0", "2", "5", "N">>)}
      [] key = "exporter_address" -> {PyStr(<<>>), PyStr(<<"A", "C", "M", "E", " ", "F", "A", "R", "M", "S", " ", "L", "T", "D", ".">>)}

\* the fields in the order extract_invoice_data lists them
KeyOrder == <<"exporter_address", "container_number", "voyage", "port_of_destination",
              "total_cartons", "total_value", "total_gross_mass_kg">>

\* the keys of d run up KeyOrder, or they run down it
InKeyOrder(d) ==
    \/ \A i, j \in DOMAIN d : i < j => IndexOf(KeyOrder, d[i][1]) < IndexOf(KeyOrder, d[j][1])
    \/ \A i, j \in DOMAIN d : i < j => IndexOf(KeyOrder, d[i][1]) > IndexOf(KeyOrder, d[j][1])

RECURSIVE SourceDicts(_)
\* the dicts of at most n of the fields, in the extractor's key order and in the
\* reverse of it
SourceDicts(n) ==
    IF n = 0 THEN {<<>>}
    ELSE LET shorter == SourceDicts(n - 1)
         IN  shorter \cup
             UNION {UNION {{Append(d, <<k, v>>) : v \in SourceValues(k)} :
                              k \in {x \in DispatchKeys \ DictKeys(d) :
                                        InKeyOrder(Append(d, <<x, PyNone>>))}} :
                       d \in {x \in shorter : Len(x) = n - 1}}

RECURSIVE TargetDicts(_)
\* the target dicts for a source dict: each source field is absent or holds a value
TargetDicts(src) ==
    IF src = <<>> THEN {<<>>}
    ELSE LET k == src[Len(src)][1]
             rest == TargetDicts(SubSeq(src, 1, Len(src) - 1))
         IN  rest \cup {Append(t, <<k, v>>) : t \in rest, v \in TargetValues(k)}

\* a field only the target document holds: no source dict of the model has this key
TargetOnlyItem == <<"vessel_name", PyStr(<<"M", "S", "C", " ", "L", "a", "n", "a">>)>>

\* the target dicts for a source dict, each without and with the target-only field
TargetDocs(src) == TargetDicts(src) \cup {<<TargetOnlyItem>> \o t : t \in TargetDicts(src)}

\* document-type tags: one with a profile, and the invoice's own, which has none
DocTypes == {"certificate_of_origin", "commercial_invoice"}

-----------------------------------------------------------------------------
(* The state machine: one operation is applied to inputs drawn from the sets above *)

NoResult == [exc |-> "", keys |-> {}, status |-> "", score |-> NoScore, notes |-> NoNotes]

NoBankingResult ==
    [exc |-> "", keys |-> {}, status |-> "", notes |-> NoNotes,
     banking_details |-> PyNone, total_value |-> <<>>]

NoConsolidation ==
    [base |-> NoneDict, agent |-> NoneDict, base_after |-> NoneDict, result |-> NoneDict]

Init ==
    /\ op = "none"
    /\ source_of_truth = <<>>
    /\ target_doc = <<>>
    /\ target_doc_type = ""
    /\ validation_report = <<>>
    /\ calls = <<>>
    /\ raised = ""
    /\ source_value = PyNone
    /\ target_value = PyNone
    /\ field_result = NoResult
    /\ returned_text = <<>>
    /\ banking_check_result = NoBankingResult
    /\ denoted = <<{}, {}>>
    /\ consolidation = NoConsolidation
    /\ pc = "idle"
    /\ file_uploads = {}
    /\ all_extracted_data = <<>>
    /\ all_detailed_reports = <<>>
    /\ summary_results = <<>>
    /\ validate_calls = <<>>
    /\ shown = <<>>

\* the state after a call validate_documents(src, tgt, ty) that ended as r
Validated(src, tgt, ty, r) ==
    /\ op' = "validate_documents"
    /\ source_of_truth' = src
    /\ target_doc' = tgt
    /\ target_doc_type' = ty
    /\ validation_report' = r.report
    /\ calls' = r.calls
    /\ raised' = r.exc
    /\ UNCHANGED <<source_value, target_value, field_result, returned_text,
                   banking_check_result, denoted, consolidation, appVars>>

\* a call validate_documents(src, tgt, ty)
ValidateDocuments ==
    /\ op = "none"
    /\ \E src \in SourceDicts(MaxFields), ty \in DocTypes, ord \in SetOrders :
         \E tgt \in TargetDocs(src) :
           \E r \in {validate_documents(src, tgt, ty, ord)} : Validated(src, tgt, ty, r)

\* the state after a validator, applied to s and t directly, ended as result
Apply(name, s, t, result) ==
    /\ op' = name
    /\ source_value' = s
    /\ target_value' = t
    /\ field_result' = result
    /\ raised' = result.exc
    /\ UNCHANGED <<source_of_truth, target_doc, target_doc_type, validation_report, calls,
                   returned_text, banking_check_result, consolidation, appVars>>

ValidateIntegerField ==
    /\ op = "none"
    /\ \E s \in NumericInputs, t \in NumericInputs :
         \E r \in {validate_integer_field(s, t)} : Apply("validate_integer_field", s, t, r)
    /\ UNCHANGED denoted

ValidateFloatField ==
    /\ op = "none"
    /\ \E s \in NumericInputs, t \in NumericInputs :
         \E r \in {validate_float_field(s, t)} : Apply("validate_float_field", s, t, r)
    /\ UNCHANGED denoted

ValidateCurrencyField ==
    /\ op = "none"
    /\ \E s \in NumericInputs, t \in NumericInputs :
         \E r \in {validate_currency_field(s, t)} : Apply("validate_currency_field", s, t, r)
    /\ UNCHANGED denoted

\* the container validator applied to two lists of container numbers, each written
\* down in some style; denoted remembers the numbers each side stands for
ValidateContainerField ==
    /\ op = "none"
    /\ \E ns \in SeqsUpTo(ContainerNumbers, MaxContainers),
          nt \in SeqsUpTo(ContainerNumbers, MaxContainers),
          ss \in Styles, st \in Styles, ord \in SetOrders :
         \E s \in {Render(ns, ss)}, t \in {Render(nt, st)} :
           \E r \in {validate_container_field(s, t, ord)} :
             /\ Apply("validate_container_field", s, t, r)
             /\ denoted' = <<Range(ns), Range(nt)>>

ValidatePartialMatchField ==
    /\ op = "none"
    /\ \E s \in TextInputs, t \in TextInputs :
         \E r \in {validate_partial_match_field(s, t)} :
           Apply("validate_partial_match_field", s, t, r)
    /\ UNCHANGED denoted

ValidateGenericField ==
    /\ op = "none"
    /\ \E s \in TextInputs, t \in TextInputs, is_multi_line \in BOOLEAN, ord \in SetOrders :
         \E r \in {validate_generic_field(s, t, is_multi_line, ord)} :
           Apply("validate_generic_field", s, t, r)
    /\ UNCHANGED denoted

\* a call normalize_string_for_fuzzy(s)
NormalizeStringForFuzzy ==
    /\ op = "none"
    /\ \E s \in FuzzyInputs :
         \E r \in {normalize_string_for_fuzzy(PyStr(s))} :
           /\ op' = "normalize_string_for_fuzzy"
           /\ source_value' = PyStr(s)
           /\ returned_text' = r
    /\ UNCHANGED <<source_of_truth, target_doc, target_doc_type, validation_report, calls,
                   raised, target_value, field_result, banking_check_result, denoted,
                   consolidation, appVars>>

\* a call validate_banking_details(ci_data)
ValidateBankingDetails ==
    /\ op = "none"
    /\ \E ci_data \in BankingInputs :
         \E r \in {validate_banking_details(ci_data)} :
           /\ op' = "validate_banking_details"
           /\ source_of_truth' = ci_data
           /\ banking_check_result' = r
           /\ raised' = r.exc
    /\ UNCHANGED <<target_doc, target_doc_type, validation_report, calls, source_value,
                   target_value, field_result, returned_text, denoted, consolidation,
                   appVars>>

\* the fields of the two bill-of-lading extractions the model consolidates
BaseKeys == <<"vessel_name", "voyage">>

AgentKeys == <<"vessel_name", "voyage", "port_of_destination">>

RECURSIVE DictsOver(_, _)
\* the dicts that hold some of the keys, in their order, each with one of the values
DictsOver(keys, values) ==
    IF keys = <<>> THEN {<<>>}
    ELSE LET rest == DictsOver(Tail(keys), values)
         IN  rest \cup {<<<<Head(keys), v>>>> \o d : v \in values, d \in rest}

\* what the form parser's extractor can hand over
BaseExtractions ==
    {NoneDict} \cup {SomeDict(d) : d \in DictsOver(BaseKeys, {PyNone, PyStr(<<"M", "S", "C", " ", "L", "a", "n", "a">>)})}

\* what the agent can hand over
AgentExtractions ==
    {NoneDict} \cup {SomeDict(d) : d \in DictsOver(AgentKeys, {PyNone, PyStr(<<"M", "S", "C", " ", "L", "A", "N", "A">>)})}

\* a call consolidate_extractions(base, agent)
ConsolidateExtractions ==
    /\ op = "none"
    /\ \E base \in BaseExtractions, agent \in AgentExtractions :
         \E r \in {consolidate_extractions(base, agent)} :
           /\ op' = "consolidate_extractions"
           /\ consolidation' = [base |-> base, agent |-> agent,
                                base_after |-> r.base_after, result |-> r.result]
    /\ UNCHANGED <<source_of_truth, target_doc, target_doc_type, validation_report, calls,
                   raised, source_value, target_value, field_result, returned_text,
                   banking_check_result, denoted, appVars>>

-----------------------------------------------------------------------------
(* The button handler of the application (src/app.py) *)

\* the keys of DOCUMENT_SLOTS, in the order of the dict
DOCUMENT_SLOTS ==
    <<"commercial_invoice", "packing_list", "bill_of_lading", "phyto_certificate", "ppecb",
      "certificate_of_origin", "eur1">>

MaxUploads == 2

\* the sets of slots that hold a file when the button is clicked: with or without the
\* invoice, and at most MaxUploads other documents
UploadChoices ==
    {S \in SUBSET Range(DOCUMENT_SLOTS) :
        Cardinality(S \ {"commercial_invoice"}) <= MaxUploads}

\* what the extraction of an invoice can hand over: nothing, an empty mapping, and
\* mappings whose banking details name USD, name no currency, name Euro, or are null
InvoiceExtractions ==
    {NoneDict, SomeDict(<<>>)} \cup
    {SomeDict(<<<<"total_cartons", PyStr(<<"1", ",", "2", "3", "4">>)>>,
                <<"total_value", PyStr(<<"$", "1", ",", "0", "0", "0", ".", "0", "0">>)>>,
                <<"banking_details", b>>>>) :
        b \in {PyNone, PyStr(<<"U", "S", "D", " ", "a", "c", "c", "o", "u", "n", "t">>),
               PyStr(<<"I", "B", "A", "N", " ", "1", "2", "3">>), PyStr(<<"E", "U", "R", "O">>)}}

\* what the extraction of another document can hand over
TargetExtractions ==
    {NoneDict, SomeDict(<<>>),
     SomeDict(<<<<"total_cartons", PyStr(<<"1", "2", "3", "4">>)>>>>),
     SomeDict(<<<<"total_cartons", PyStr(HugeDigits)>>>>)}

\* the outcomes of run_extraction_for_document for a slot
run_extraction_for_document(doc_type_key) ==
    IF doc_type_key = "commercial_invoice" THEN InvoiceExtractions ELSE TargetExtractions

\* all_extracted_data.get("commercial_invoice")
source_of_truth_data == DictGetDefault(all_extracted_data, "commercial_invoice", NoneDict)

\* the extractions of the other documents that are not None
target_documents_to_validate ==
    SelectSeq(all_extracted_data,
              LAMBDA item : item[1] # "commercial_invoice" /\ ~item[2].is_none)

\* what the banking section renders for the result of the banking check
banking_display(result) ==
    IF result.status = "NOT_APPLICable"
    THEN <<"st.info(notes)">>
    ELSE <<"st.write(Banking Details Provided)",
           IF "banking_details" \in result.keys
           THEN "st.text(banking_details)" ELSE "st.text(Not Found)",
           "st.write(Total Value Provided)",
           IF "total_value" \in result.keys
           THEN "st.text(total_value)" ELSE "st.text(Not Found)",
           "st.write(Result)">>
         \o (IF result.status = "MATCH" THEN <<"st.success(notes)">>
             ELSE IF result.status = "MISMATCH" THEN <<"st.error(notes)">>
             ELSE <<>>)

\* the button is clicked with some files in the slots
ClickValidate ==
    /\ pc = "idle"
    /\ \E uploads \in UploadChoices :
         /\ file_uploads' = uploads
         /\ IF "commercial_invoice" \notin uploads
            THEN /\ shown' = <<"st.error(Validation requires a Commercial Invoice)">>
                 /\ pc' = "done"
            ELSE /\ shown' = <<>>
                 /\ pc' = "extracting"
    /\ all_extracted_data' = <<>>
    /\ UNCHANGED <<op, source_of_truth, target_doc, target_doc_type, validation_report, calls,
                   raised, source_value, target_value, field_result, returned_text,
                   banking_check_result, denoted, consolidation, all_detailed_reports,
                   summary_results, validate_calls>>

\* one pass of the extraction loop, for the next slot that holds a file
ExtractDocument ==
    /\ pc = "extracting"
    /\ \E i \in DOMAIN DOCUMENT_SLOTS :
         /\ DOCUMENT_SLOTS[i] \in file_uploads \ DictKeys(all_extracted_data)
         /\ \A j \in 1..(i - 1) :
               DOCUMENT_SLOTS[j] \notin file_uploads \ DictKeys(all_extracted_data)
         /\ \E extracted_data \in run_extraction_for_document(DOCUMENT_SLOTS[i]) :
               all_extracted_data' = DictSet(all_extracted_data, DOCUMENT_SLOTS[i], extracted_data)
    /\ UNCHANGED <<op, source_of_truth, target_doc, target_doc_type, validation_report, calls,
                   raised, source_value, target_value, field_result, returned_text,
                   banking_check_result, denoted, consolidation, pc, file_uploads,
                   all_detailed_reports, summary_results, validate_calls, shown>>

\* the end of the extraction loop and the tests that lead to the validation loop
FinishExtraction ==
    /\ pc = "extracting"
    /\ file_uploads \subseteq DictKeys(all_extracted_data)
    /\ IF source_of_truth_data.is_none \/ source_of_truth_data.items = <<>>
       THEN /\ shown' = shown \o <<"st.success(Data extraction complete)",
                                   "st.error(Extraction failed for the Commercial Invoice)">>
            /\ pc' = "done"
            /\ UNCHANGED summary_results
       ELSE IF target_documents_to_validate = <<>>
       THEN /\ shown' = shown \o <<"st.success(Data extraction complete)",
                                   "st.warning(Only a Commercial Invoice was uploaded)">>
            /\ pc' = "done"
            /\ UNCHANGED summary_results
       ELSE /\ shown' = shown \o <<"st.success(Data extraction complete)">>
            /\ pc' = "validating"
            /\ summary_results' = [i \in DOMAIN source_of_truth_data.items |->
                                      <<source_of_truth_data.items[i][1], <<>>>>] \o <<>>
    /\ UNCHANGED <<op, source_of_truth, target_doc, target_doc_type, validation_report, calls,
                   raised, source_value, target_value, field_result, returned_text,
                   banking_check_result, denoted, consolidation, file_uploads,
                   all_extracted_data, all_detailed_reports, validate_calls>>

\* one pass of the validation loop, for the next document to validate; an exception
\* of validate_documents ends the handler
ValidateNextDocument ==
    /\ pc = "validating"
    /\ Len(validate_calls) < Len(target_documents_to_validate)
    /\ \E ord \in SetOrders :
         LET doc_key == target_documents_to_validate[Len(validate_calls) + 1][1]
             target_data == target_documents_to_validate[Len(validate_calls) + 1][2]
         IN  \E r \in {validate_documents(source_of_truth_data.items, target_data.items,
                                          doc_key, ord)} :
               /\ validate_calls' = Append(validate_calls,
                      [source_of_truth |-> source_of_truth_data.items,
                       target_doc |-> target_data.items, target_doc_type |-> doc_key])
               /\ IF r.exc # ""
                  THEN /\ raised' = r.exc
                       /\ pc' = "aborted"
                       /\ UNCHANGED <<all_detailed_reports, summary_results>>
                  ELSE /\ all_detailed_reports' = DictSet(all_detailed_reports, doc_key, r.report)
                       /\ summary_results' =
                             [i \in DOMAIN summary_results |->
                                 IF summary_results[i][1] \in DictKeys(r.report)
                                 THEN <<summary_results[i][1],
                                        DictSet(summary_results[i][2], doc_key,
                                                DictGet(r.report, summary_results[i][1]).status)>>
                                 ELSE summary_results[i]] \o <<>>
                       /\ UNCHANGED <<raised, pc>>
    /\ UNCHANGED <<op, source_of_truth, target_doc, target_doc_type, validation_report, calls,
                   source_value, target_value, field_result, returned_text,
                   banking_check_result, denoted, consolidation, file_uploads,
                   all_extracted_data, shown>>

\* after the validation loop: the summary table, the banking check and its section,
\* the detailed reports; an exception of validate_banking_details ends the handler
DisplayResults ==
    /\ pc = "validating"
    /\ Len(validate_calls) = Len(target_documents_to_validate)
    /\ \E r \in {validate_banking_details(source_of_truth_data.items)} :
         /\ banking_check_result' = r
         /\ raised' = r.exc
         /\ IF r.exc # ""
            THEN /\ shown' = shown \o <<"st.dataframe(summary)">>
                 /\ pc' = "aborted"
            ELSE /\ shown' = shown \o <<"st.dataframe(summary)">> \o banking_display(r)
                                  \o <<"st.tabs(detailed reports)">>
                 /\ pc' = "done"
    /\ UNCHANGED <<op, source_of_truth, target_doc, target_doc_type, validation_report, calls,
                   source_value, target_value, field_result, returned_text, denoted,
                   consolidation, file_uploads, all_extracted_data, all_detailed_reports,
                   summary_results, validate_calls>>

Next == ValidateDocuments

Spec == Init /\ [][Next]_vars

NextInteger == ValidateIntegerField

SpecInteger == Init /\ [][NextInteger]_vars

NextFloat == ValidateFloatField

SpecFloat == Init /\ [][NextFloat]_vars

NextCurrency == ValidateCurrencyField

SpecCurrency == Init /\ [][NextCurrency]_vars

NextContainer == ValidateContainerField

SpecContainer == Init /\ [][NextContainer]_vars

NextPartialMatch == ValidatePartialMatchField

SpecPartialMatch == Init /\ [][NextPartialMatch]_vars

NextGeneric == ValidateGenericField

SpecGeneric == Init /\ [][NextGeneric]_vars

NextReportsAndGeneric == ValidateDocuments \/ ValidateGenericField

SpecReportsAndGeneric == Init /\ [][NextReportsAndGeneric]_vars

NextBanking == ValidateBankingDetails

SpecBanking == Init /\ [][NextBanking]_vars

NextNormalize == NormalizeStringForFuzzy

SpecNormalize == Init /\ [][NextNormalize]_vars

NextConsolidate == ConsolidateExtractions

SpecConsolidate == Init /\ [][NextConsolidate]_vars

NextApp ==
    \/ ClickValidate
    \/ ExtractDocument
    \/ FinishExtraction
    \/ ValidateNextDocument
    \/ DisplayResults

SpecApp == Init /\ [][NextApp]_vars

-----------------------------------------------------------------------------
(* Properties of the dispatcher *)

\* a value that is None, or blank once coerced to text and trimmed
Blank(v) == v.kind = "none" \/ \A i \in DOMAIN str(v) : str(v)[i] \in Whitespace

Returned == op = "validate_documents" /\ raised = ""

ReportKeys == {validation_report[i][1] : i \in DOMAIN validation_report}

\* the report entry of field k
EntryOf(k) == validation_report[CHOOSE i \in DOMAIN validation_report : validation_report[i][1] = k][2]

CallsFor(k) == {i \in DOMAIN calls : calls[i].key = k}

\* C1: the returned report has exactly the keys of the source-of-truth mapping, each
\* once, whether or not the target has the field, and no key the target alone holds.
C1_ReportKeysAreSourceKeys ==
    Returned =>
        /\ Len(validation_report) = Len(source_of_truth)
        /\ \A k \in DictKeys(source_of_truth) :
               Cardinality({i \in DOMAIN validation_report : validation_report[i][1] = k}) = 1
        /\ ReportKeys \subseteq DictKeys(source_of_truth)

\* C1's case: a report for two source fields, one the target lacks and one it has,
\* from a target that also holds a field of its own
C1_Witness ==
    /\ Returned
    /\ Len(source_of_truth) = 2
    /\ DictKeys(source_of_truth) \ DictKeys(target_doc) # {}
    /\ DictKeys(source_of_truth) \cap DictKeys(target_doc) # {}
    /\ "vessel_name" \in DictKeys(target_doc)
    /\ ReportKeys = DictKeys(source_of_truth)

\* C2: a field whose target value is null or blank gets MISSING_REQUIRED_FIELD when the
\* profile of the document type requires it and NOT_APPLICABLE otherwise, with a null
\* score, and no validator is called for it; for certificate_of_origin a missing voyage
\* is NOT_APPLICABLE and a missing exporter_address is MISSING_REQUIRED_FIELD.
C2_MissingFieldPolicy ==
    /\ \A i \in DOMAIN calls : ~Blank(DictGet(target_doc, calls[i].key))
    /\ Returned =>
         \A k \in DictKeys(source_of_truth) :
            Blank(DictGet(target_doc, k)) =>
               /\ EntryOf(k).status =
                     IF target_doc_type \in ProfileNames
                        /\ k \in VALIDATION_PROFILES[target_doc_type]
                     THEN "MISSING_REQUIRED_FIELD" ELSE "NOT_APPLICABLE"
               /\ "score" \in EntryOf(k).keys
               /\ EntryOf(k).score = NoScore
               /\ target_doc_type = "certificate_of_origin" /\ k = "voyage"
                     => EntryOf(k).status = "NOT_APPLICABLE"
               /\ target_doc_type = "certificate_of_origin" /\ k = "exporter_address"
                     => EntryOf(k).status = "MISSING_REQUIRED_FIELD"

\* C2's case: a certificate of origin that lacks voyage and has a blank exporter_address
C2_Witness ==
    /\ Returned
    /\ target_doc_type = "certificate_of_origin"
    /\ DictKeys(source_of_truth) = {"voyage", "exporter_address"}
    /\ "voyage" \notin DictKeys(target_doc)
    /\ DictGet(target_doc, "exporter_address") = PyStr(<<>>)
    /\ EntryOf("voyage").status = "NOT_APPLICABLE"
    /\ EntryOf("exporter_address").status = "MISSING_REQUIRED_FIELD"
    /\ calls = <<>>

\* C3: for a document-type tag without a profile no field is MISSING_REQUIRED_FIELD:
\* every field whose target value is missing is NOT_APPLICABLE.
C3_UnknownTypeFailsOpen ==
    (Returned /\ target_doc_type \notin ProfileNames) =>
        \A k \in DictKeys(source_of_truth) :
            /\ EntryOf(k).status # "MISSING_REQUIRED_FIELD"
            /\ Blank(DictGet(target_doc, k)) => EntryOf(k).status = "NOT_APPLICABLE"

\* C3's case: a tag without a profile, and a missing field that every profile requires
C3_Witness ==
    /\ Returned
    /\ target_doc_type = "commercial_invoice"
    /\ "exporter_address" \in DictKeys(source_of_truth)
    /\ Blank(DictGet(target_doc, "exporter_address"))
    /\ EntryOf("exporter_address").status = "NOT_APPLICABLE"

\* C4: no exception leaves validate_documents: it returns a report with an entry for
\* every source field, whatever the values are.
C4_NoExceptionLeavesDispatcher ==
    op = "validate_documents" =>
        /\ raised = ""
        /\ ReportKeys = DictKeys(source_of_truth)

\* C6: every present field goes to exactly one validator, picked by the precedence
\* integer > float > currency > container-list > partial-match > generic;
\* port_of_destination goes to the partial-match validator, the other simple-text
\* fields and the multi-line fields to the generic one.
C6_DispatchPrecedence ==
    /\ \A i \in DOMAIN calls :
         LET k == calls[i].key
             v == calls[i].validator
         IN  /\ k = "total_cartons" => v = "validate_integer_field"
             /\ k \in {"total_gross_mass_kg", "total_net_mass_kg"} => v = "validate_float_field"
             /\ k = "total_value" => v = "validate_currency_field"
             /\ k = "container_number" => v = "validate_container_field"
             /\ k = "port_of_destination" => v = "validate_partial_match_field"
             /\ k \in {"vessel_name", "voyage", "exporter_address", "consignee_details",
                       "notify_party_details", "invoice_party_details", "banking_details"}
                   => v = "validate_generic_field"
    /\ Returned =>
         \A k \in DictKeys(source_of_truth) :
            Cardinality(CallsFor(k)) = IF Blank(DictGet(target_doc, k)) THEN 0 ELSE 1

\* C6's case: a report with port_of_destination and voyage both present in the target
C6_Witness ==
    /\ Returned
    /\ \E i \in DOMAIN calls :
          calls[i].key = "port_of_destination"
          /\ calls[i].validator = "validate_partial_match_field"
    /\ \E i \in DOMAIN calls :
          calls[i].key = "voyage" /\ calls[i].validator = "validate_generic_field"

\* C7: validate_documents calls a validator only with a source value and a target value
\* that are both non-null and non-empty.
C7_ValidatorArgumentsPresent ==
    \A i \in DOMAIN calls : ~Blank(calls[i].source_value) /\ ~Blank(calls[i].target_value)

-----------------------------------------------------------------------------
(* Properties of the numeric validators *)

\* the decimal value a numeric validator reads out of v
Parsed(v) == float(normalize_for_numeric(v))

Finite(f) == f.err = "" /\ ~f.inf

Verdict(st, sc) ==
    /\ raised = ""
    /\ field_result.status = st
    /\ "score" \in field_result.keys
    /\ field_result.score = sc

\* C5: the currency validator strips currency symbols and thousands commas, keeps the
\* decimal point and compares the normalized strings: MATCHED_EXACTLY/100 when they are
\* equal ("$1,000.00" against "1000.00"), DOES_NOT_MATCH/0 when they are not.
C5_CurrencyComparesNormalizedStrings ==
    op = "validate_currency_field" =>
        /\ source_value = PyStr(<<"U", "S", "D">>) /\ target_value = PyStr(<<"P", "L", "A", "I", "N">>)
              => Verdict("MATCHED_EXACTLY", 100)
        /\ IF normalize_for_numeric(source_value) = normalize_for_numeric(target_value)
           THEN Verdict("MATCHED_EXACTLY", 100)
           ELSE Verdict("DOES_NOT_MATCH", 0)

\* C8: the integer validator parses both values by float-then-int and returns
\* MATCHED_EXACTLY/100 when the integers are equal ("1,234" against "1234"),
\* DOES_NOT_MATCH/0 when they differ, and TYPE_ERROR without a score when either side
\* cannot be parsed ("100" against "abc").
C8_IntegerVerdict ==
    op = "validate_integer_field" =>
        LET s == int_float(normalize_for_numeric(source_value))
            t == int_float(normalize_for_numeric(target_value))
        IN  IF s.err # "" \/ t.err # ""
            THEN /\ raised = ""
                 /\ field_result.status = "TYPE_ERROR"
                 /\ "score" \notin field_result.keys
            ELSE IF s.val = t.val THEN Verdict("MATCHED_EXACTLY", 100)
            ELSE Verdict("DOES_NOT_MATCH", 0)

\* C9: on two values that parse, the float validator returns MATCHED_EXACTLY/100 when
\* they are equal, else MATCHED_WITH_TOLERANCE/99 when abs(source - target) is at most
\* one hundredth of the source, else DOES_NOT_MATCH/0; the band is the source's, so
\* "100" against "99" is within it and "99" against "100" is not. "100.00" against
\* "100.5" is MATCHED_WITH_TOLERANCE and "100.00" against "102.5" is DOES_NOT_MATCH.
C9_FloatTolerance ==
    (op = "validate_float_field" /\ Finite(Parsed(source_value)) /\ Finite(Parsed(target_value))) =>
        LET s == Parsed(source_value)
            t == Parsed(target_value)
            sn == Signed(s) * t.den
            tn == Signed(t) * s.den
        IN  /\ IF sn = tn THEN Verdict("MATCHED_EXACTLY", 100)
               ELSE IF Abs(sn - tn) * 100 <= sn THEN Verdict("MATCHED_WITH_TOLERANCE", 99)
               ELSE Verdict("DOES_NOT_MATCH", 0)
            /\ source_value = PyStr(<<"1", "0", "0", ".", "0", "0">>) /\ target_value = PyStr(<<"1", "0", "0", ".", "5">>)
                  => Verdict("MATCHED_WITH_TOLERANCE", 99)
            /\ source_value = PyStr(<<"1", "0", "0", ".", "0", "0">>) /\ target_value = PyStr(<<"1", "0", "2", ".", "5">>)
                  => Verdict("DOES_NOT_MATCH", 0)
            /\ source_value = PyStr(<<"1", "0", "0">>) /\ target_value = PyStr(<<"9", "9">>)
                  => Verdict("MATCHED_WITH_TOLERANCE", 99)
            /\ source_value = PyStr(<<"9", "9">>) /\ target_value = PyStr(<<"1", "0", "0">>)
                  => Verdict("DOES_NOT_MATCH", 0)

\* C9's case: "99" against "100" is rejected, and the same pair swapped is accepted
C9_Witness ==
    /\ op = "validate_float_field"
    /\ source_value = PyStr(<<"9", "9">>)
    /\ target_value = PyStr(<<"1", "0", "0">>)
    /\ Verdict("DOES_NOT_MATCH", 0)
    /\ validate_float_field(target_value, source_value).status = "MATCHED_WITH_TOLERANCE"

-----------------------------------------------------------------------------
(* Properties of the container validator *)

\* C10: when source and target stand for the same set of container numbers the
\* container validator returns MATCHED_EXACTLY/100, whether a side is a list of strings
\* or one string of numbers joined by commas and/or whitespace, and whatever the order,
\* the letter case and the repetitions are.
C10_ContainerSetEquality ==
    (op = "validate_container_field" /\ denoted[1] = denoted[2]) =>
        Verdict("MATCHED_EXACTLY", 100)

\* C10's case: a list of two numbers against one string that holds them in the other
\* order, in lower case, one per line
C10_Witness ==
    /\ op = "validate_container_field"
    /\ source_value = PyList(<<<<"M", "A", "E", "U", "1", "2", "3", "4", "5", "6", "7">>, <<"M", "A", "E", "U", "7", "6", "5", "4", "3", "2", "1">>>>)
    /\ target_value = PyStr(<<"m", "a", "e", "u", "7", "6", "5", "4", "3", "2", "1">> \o <<"\n">> \o <<"m", "a", "e", "u", "1", "2", "3", "4", "5", "6", "7">>)
    /\ denoted[1] = denoted[2]
    /\ Verdict("MATCHED_EXACTLY", 100)

-----------------------------------------------------------------------------
(* Properties of the text validators *)

\* the fuzzy-normalized text a text validator compares for v
Normalized(v) == normalize_string_for_fuzzy(PyStr(str(v)))

\* the words a note lists after the label
ListedAfter(notes, label) ==
    IF \E i \in DOMAIN notes : notes[i] = Lit(label)
    THEN Range(Tokens(notes[(CHOOSE i \in DOMAIN notes : notes[i] = Lit(label)) + 1].val,
                      {",", " "}))
    ELSE {}

\* C11: the generic validator takes the larger of the token-sort and the token-set
\* score of the normalized strings as the final score; equal normalized strings give
\* MATCHED_CONTENT_ONLY/99, a final score above 95 MATCHED_MOSTLY with one note, a final
\* score above 75 MATCHED_MOSTLY with another, and a final score of 75 or less
\* DOES_NOT_MATCH with notes that list the words each side has and the other lacks.
C11_GenericVerdict ==
    op = "validate_generic_field" =>
        LET ns == Normalized(source_value)
            nt == Normalized(target_value)
            sort_score == token_sort_ratio(ns, nt)
            set_score == token_set_ratio(ns, nt)
            final == IF sort_score >= set_score THEN sort_score ELSE set_score
            source_words == Range(split(ns))
            target_words == Range(split(nt))
        IN  IF ns = nt THEN Verdict("MATCHED_CONTENT_ONLY", 99)
            ELSE IF final > 95
            THEN /\ Verdict("MATCHED_MOSTLY", final)
                 /\ field_result.notes =
                      <<Lit("One address appears to be a perfect or near-perfect subset of the other.")>>
            ELSE IF final > 75
            THEN /\ Verdict("MATCHED_MOSTLY", final)
                 /\ field_result.notes =
                      <<Lit("Values are highly similar but have notable differences.")>>
            ELSE /\ Verdict("DOES_NOT_MATCH", final)
                 /\ ListedAfter(field_result.notes, "Words in source not in target: ")
                       = source_words \ target_words
                 /\ ListedAfter(field_result.notes, "Words in target not in source: ")
                       = target_words \ source_words

\* C11's case: two addresses that share a word, with a token-set score above 75 and a
\* token-sort score below it
C11_Witness ==
    /\ op = "validate_generic_field"
    /\ source_value = PyStr(<<"R", "o", "t", "t", "e", "r", "d", "a", "m", ",", " ", "N", "L">>)
    /\ target_value = PyStr(<<"N", "L">>)
    /\ token_sort_ratio(Normalized(source_value), Normalized(target_value)) <= 75
    /\ Verdict("MATCHED_MOSTLY", 100)

\* C12: the generic validator never returns MATCHED_EXACTLY, identical source and
\* target values give MATCHED_CONTENT_ONLY/99, and in a report MATCHED_EXACTLY is the
\* status of integer, float, currency, container and partial-match fields only.
C12_GenericNeverExact ==
    /\ op = "validate_generic_field" =>
          /\ field_result.status # "MATCHED_EXACTLY"
          /\ source_value = target_value => Verdict("MATCHED_CONTENT_ONLY", 99)
    /\ Returned =>
          \A k \in ReportKeys :
             /\ EntryOf(k).status = "MATCHED_EXACTLY" =>
                   k \in {"total_cartons", "total_gross_mass_kg", "total_net_mass_kg",
                          "total_value", "container_number", "port_of_destination"}
             /\ (\E i \in DOMAIN calls :
                     /\ calls[i].key = k
                     /\ calls[i].validator = "validate_generic_field"
                     /\ calls[i].source_value = calls[i].target_value)
                   => EntryOf(k).status = "MATCHED_CONTENT_ONLY" /\ EntryOf(k).score = 99

\* C12's case: a report whose voyage is the same text in source and target
C12_Witness ==
    /\ Returned
    /\ "voyage" \in ReportKeys
    /\ DictGet(source_of_truth, "voyage") = PyStr(<<"V", ".", " ", "0", "2", "5", "N">>)
    /\ DictGet(target_doc, "voyage") = PyStr(<<"V", ".", " ", "0", "2", "5", "N">>)
    /\ EntryOf("voyage").status = "MATCHED_CONTENT_ONLY"

\* C13: the partial-match validator returns MATCHED_EXACTLY/100 when the normalized
\* strings are equal, else MATCHED_MOSTLY when their token-set score is above 80 and
\* DOES_NOT_MATCH when it is 80 or less, and the score returned is the token-set score.
C13_PartialMatchVerdict ==
    op = "validate_partial_match_field" =>
        LET ns == Normalized(source_value)
            nt == Normalized(target_value)
            score == token_set_ratio(ns, nt)
        IN  IF ns = nt THEN Verdict("MATCHED_EXACTLY", 100)
            ELSE IF score > 80 THEN Verdict("MATCHED_MOSTLY", score)
            ELSE Verdict("DOES_NOT_MATCH", score)

\* C13's case: two ports that share a word and differ in another, scored 86
C13_Witness ==
    /\ op = "validate_partial_match_field"
    /\ source_value = PyStr(<<"R", "o", "t", "t", "e", "r", "d", "a", "m", ",", " ", "N", "L">>)
    /\ target_value = PyStr(<<"R", "o", "t", "t", "e", "r", "d", "a", "m", " ", "N", "e", "t", "h", "e", "r", "l", "a", "n", "d", "s">>)
    /\ Verdict("MATCHED_MOSTLY", 86)

\* C14: for source "Netherlands" and target "NL" the partial-match validator scores
\* above 80 and returns MATCHED_MOSTLY.
C14_AbbreviationAccepted ==
    (/\ op = "validate_partial_match_field"
     /\ source_value = PyStr(<<"N", "e", "t", "h", "e", "r", "l", "a", "n", "d", "s">>)
     /\ target_value = PyStr(<<"N", "L">>)) =>
        /\ field_result.score > 80
        /\ field_result.status = "MATCHED_MOSTLY"

\* C15: normalize_string_for_fuzzy is idempotent: normalizing the string it returned
\* returns that string.
C15_NormalizeIdempotent ==
    op = "normalize_string_for_fuzzy" =>
        normalize_string_for_fuzzy(PyStr(returned_text)) = returned_text

\* C15's case: a string the normalizer changes (case, punctuation and blanks)
C15_Witness ==
    /\ op = "normalize_string_for_fuzzy"
    /\ source_value = PyStr(<<"B", ".", "\n">>)
    /\ returned_text = <<"b">>

-----------------------------------------------------------------------------
(* Properties of the banking check *)

BankingText == DictGetDefault(source_of_truth, "banking_details", PyStr(<<>>))

TotalValueText == str(DictGetDefault(source_of_truth, "total_value", PyStr(<<>>)))

BankingStatus(st) == raised = "" /\ banking_check_result.status = st

\* C17: on a banking-details text the check takes the currency of the first keyword
\* found in the order "euro", "usd", "uk" or "gbp", whatever the letter case; without a
\* keyword it returns NOT_APPLICABLE, else MATCH when the total-value text holds the
\* symbol of that currency and MISMATCH when it does not; a text naming Euro and USD
\* is checked against the euro sign only.
C17_BankingCurrencyPriority ==
    (op = "validate_banking_details" /\ BankingText.kind = "str") =>
        LET text == lower(BankingText.str)
            symbol == IF Contains(<<"e", "u", "r", "o">>, text) THEN "€"
                      ELSE IF Contains(<<"u", "s", "d">>, text) THEN "$"
                      ELSE IF Contains(<<"u", "k">>, text) \/ Contains(<<"g", "b", "p">>, text) THEN "£"
                      ELSE ""
        IN  /\ IF symbol = "" THEN BankingStatus("NOT_APPLICABLE")
               ELSE IF symbol \in Range(TotalValueText) THEN BankingStatus("MATCH")
               ELSE BankingStatus("MISMATCH")
            /\ (Contains(<<"e", "u", "r", "o">>, text) /\ Contains(<<"u", "s", "d">>, text)) =>
                  IF "€" \in Range(TotalValueText) THEN BankingStatus("MATCH")
                  ELSE BankingStatus("MISMATCH")

\* C17's case: banking details that name USD and Euro, and a total in dollars
C17_Witness ==
    /\ op = "validate_banking_details"
    /\ BankingText = PyStr(<<"P", "a", "y", " ", "i", "n", " ", "u", "s", "d", " ", "o", "r", " ", "E", "u", "r", "o">>)
    /\ TotalValueText = <<"$", "1", "2", "0", ".", "0", "0">>
    /\ BankingStatus("MISMATCH")

-----------------------------------------------------------------------------
(* Properties of whole reports *)

\* the five keys of a per-field result
ResultKeys == {"status", "score", "notes", "source_value", "target_value"}

\* the items of d whose key is in keys
Restrict(d, keys) == SelectSeq(d, LAMBDA item : item[1] \in keys)

\* C16: validate_documents is deterministic: every run on the same source mapping,
\* target mapping and document type returns the same report, notes included.
C16_Deterministic ==
    Returned =>
        \A ord \in SetOrders :
            validate_documents(source_of_truth, target_doc, target_doc_type, ord).report
                = validation_report

\* C18: every per-field result of a report has the five keys status, score, notes,
\* source_value and target_value, and its status is one of the eight statuses.
C18_ResultRecordComplete ==
    Returned =>
        \A k \in ReportKeys :
            /\ EntryOf(k).keys = ResultKeys
            /\ EntryOf(k).status \in ValidationStatus

\* C19: the fields only the target holds do not show: for a target with such fields
\* the call returns what it returns for the target cut down to the keys of the source
\* of truth.
C19_TargetOnlyFieldsInvisible ==
    (op = "validate_documents" /\ DictKeys(target_doc) \ DictKeys(source_of_truth) # {}) =>
        \E ord \in SetOrders :
            LET r == validate_documents(source_of_truth,
                                        Restrict(target_doc, DictKeys(source_of_truth)),
                                        target_doc_type, ord)
            IN  r.exc = raised /\ r.report = validation_report

\* C19's case: a report for a target that holds vessel_name, which the source lacks
C19_Witness ==
    /\ Returned
    /\ "vessel_name" \in DictKeys(target_doc) \ DictKeys(source_of_truth)
    /\ DictKeys(source_of_truth) \cap DictKeys(target_doc) # {}
    /\ Len(validation_report) = 2

\* C20: the entries of a report come in the order of the fields of the source of
\* truth, whether the missing-field branch or a validator made them.
C20_ReportOrderIsSourceOrder ==
    Returned =>
        /\ Len(validation_report) = Len(source_of_truth)
        /\ \A i \in DOMAIN validation_report : validation_report[i][1] = source_of_truth[i][1]

\* C20's case: a report whose first entry a validator made and whose second entry the
\* missing-field branch made
C20_Witness ==
    /\ Returned
    /\ Len(validation_report) = 2
    /\ validation_report[1][2].status = "MATCHED_EXACTLY"
    /\ validation_report[2][2].status = "MISSING_REQUIRED_FIELD"
    /\ CallsFor(source_of_truth[1][1]) # {}
    /\ CallsFor(source_of_truth[2][1]) = {}

-----------------------------------------------------------------------------
(* Differing container sets *)

\* the token-set score of the two container sets
ContainerScore ==
    token_set_ratio(str_of_set(to_set(source_value), "ascending"),
                    str_of_set(to_set(target_value), "ascending"))

\* C21: when the container sets differ the container validator returns MATCHED_MOSTLY
\* if the token-set score is strictly above 85 and DOES_NOT_MATCH if it is 85 or below,
\* and in both cases the notes list exactly the members of source minus target as
\* missing from the target and the members of target minus source as extra in it.
C21_ContainerDifference ==
    (op = "validate_container_field" /\ to_set(source_value) # to_set(target_value)) =>
        /\ Verdict(IF ContainerScore > 85 THEN "MATCHED_MOSTLY" ELSE "DOES_NOT_MATCH",
                   ContainerScore)
        /\ "notes" \in field_result.keys
        /\ ListedAfter(field_result.notes, "Missing from target: ")
               = to_set(source_value) \ to_set(target_value)
        /\ ListedAfter(field_result.notes, "Extra in target: ")
               = to_set(target_value) \ to_set(source_value)

\* C21's case: two numbers against one of them, which scores above 85 and lists the
\* other number as missing and nothing as extra
C21_Witness ==
    /\ op = "validate_container_field"
    /\ to_set(source_value) \ to_set(target_value) # {}
    /\ to_set(target_value) \subseteq to_set(source_value)
    /\ to_set(target_value) # {}
    /\ field_result.status = "MATCHED_MOSTLY"
    /\ ListedAfter(field_result.notes, "Missing from target: ")
           = to_set(source_value) \ to_set(target_value)
    /\ ListedAfter(field_result.notes, "Extra in target: ") = {}

-----------------------------------------------------------------------------
(* The tolerance band of the float validator at zero and below *)

\* C22: when the source value of a float field parses to 0 the float validator never
\* returns MATCHED_WITH_TOLERANCE: the result is MATCHED_EXACTLY if the target also
\* parses to 0 and DOES_NOT_MATCH for every other target that parses.
C22_ZeroSourceHasNoTolerance ==
    (/\ op = "validate_float_field"
     /\ Finite(Parsed(source_value)) /\ Parsed(source_value).num = 0
     /\ Parsed(target_value).err = "") =>
        /\ field_result.status # "MATCHED_WITH_TOLERANCE"
        /\ IF Finite(Parsed(target_value)) /\ Parsed(target_value).num = 0
           THEN Verdict("MATCHED_EXACTLY", 100)
           ELSE Verdict("DOES_NOT_MATCH", 0)

\* C22's case: a zero source against a target half a unit away is rejected
C22_Witness ==
    /\ op = "validate_float_field"
    /\ source_value = PyStr(<<"0", ".", "0">>)
    /\ target_value = PyStr(<<".", "5">>)
    /\ Verdict("DOES_NOT_MATCH", 0)

\* C27: the float validator's tolerance applies to sources of either sign: for a
\* negative source value and a target within 1% of its magnitude the result is
\* MATCHED_WITH_TOLERANCE, as it is for the same pair with both signs flipped.
C27_ToleranceForNegativeSource ==
    (/\ op = "validate_float_field"
     /\ Finite(Parsed(source_value)) /\ Finite(Parsed(target_value))
     /\ Signed(Parsed(source_value)) < 0) =>
        LET s == Parsed(source_value)
            t == Parsed(target_value)
            sn == Signed(s) * t.den
            tn == Signed(t) * s.den
        IN  (sn # tn /\ Abs(sn - tn) * 100 <= Abs(sn)) => Verdict("MATCHED_WITH_TOLERANCE", 99)

-----------------------------------------------------------------------------
(* The entries of a report *)

ComparisonStatuses ==
    {"MATCHED_EXACTLY", "MATCHED_WITH_TOLERANCE", "MATCHED_CONTENT_ONLY", "MATCHED_MOSTLY",
     "DOES_NOT_MATCH", "TYPE_ERROR"}

MissingStatuses == {"MISSING_REQUIRED_FIELD", "NOT_APPLICABLE"}

\* C23: in every report entry, from the missing-field branch and from the validator
\* branch alike, source_value is the source-of-truth mapping's value for the field and
\* target_value is the target mapping's value for it (null when the target lacks the
\* key), both unnormalized and unchanged by the validator that ran.
C23_EntryValuesVerbatim ==
    Returned =>
        \A k \in ReportKeys :
            /\ {"source_value", "target_value"} \subseteq EntryOf(k).keys
            /\ EntryOf(k).source_value = DictGet(source_of_truth, k)
            /\ EntryOf(k).target_value = DictGet(target_doc, k)
            /\ k \notin DictKeys(target_doc) => EntryOf(k).target_value = PyNone

\* C23's case: a report with an entry of the missing-field branch for a key the target
\* lacks, and an entry of the container validator that holds the source's list and the
\* target's string as they came
C23_Witness ==
    /\ Returned
    /\ DictKeys(source_of_truth) = {"voyage", "container_number"}
    /\ "voyage" \notin DictKeys(target_doc)
    /\ EntryOf("voyage").status \in MissingStatuses
    /\ EntryOf("voyage").target_value = PyNone
    /\ CallsFor("container_number") # {}
    /\ EntryOf("container_number").source_value.kind = "list"
    /\ EntryOf("container_number").target_value.kind = "str"
    /\ EntryOf("container_number").status = "MATCHED_EXACTLY"

\* C25: in any report a field has status MISSING_REQUIRED_FIELD or NOT_APPLICABLE if
\* and only if its target value is null or blank after string coercion; a field whose
\* target value is present gets one of the six comparison statuses, and its score,
\* when present, lies in 0..100.
C25_StatusPartition ==
    Returned =>
        \A k \in ReportKeys :
            /\ EntryOf(k).status \in MissingStatuses <=> Blank(DictGet(target_doc, k))
            /\ ~Blank(DictGet(target_doc, k)) =>
                  /\ EntryOf(k).status \in ComparisonStatuses
                  /\ "score" \in EntryOf(k).keys => EntryOf(k).score \in 0..100

\* C25's case: a report with a blank target value next to an empty list, which is not
\* blank as a string and gets a comparison status with a score
C25_Witness ==
    /\ Returned
    /\ DictGet(target_doc, "total_gross_mass_kg") = PyStr(<<" ", " ">>)
    /\ EntryOf("total_gross_mass_kg").status \in MissingStatuses
    /\ DictGet(target_doc, "container_number") = PyList(<<>>)
    /\ EntryOf("container_number").status = "DOES_NOT_MATCH"
    /\ EntryOf("container_number").score \in 0..100

\* C28: a target container value that holds no container number (an empty list, or a
\* string made only of commas and whitespace) is treated as missing: the container
\* field gets MISSING_REQUIRED_FIELD or NOT_APPLICABLE and the container validator is
\* never called with a target whose token set is empty.
C28_EmptyContainerTargetIsMissing ==
    /\ \A i \in DOMAIN calls :
          calls[i].validator = "validate_container_field"
             => to_set(calls[i].target_value) # {}
    /\ Returned =>
          \A k \in ReportKeys \cap CONTAINER_FIELDS :
              to_set(DictGet(target_doc, k)) = {} => EntryOf(k).status \in MissingStatuses

-----------------------------------------------------------------------------
(* Totality of the banking check *)

\* C26: the banking check is total over source-of-truth mappings: for every mapping
\* an extractor can hand over, including one whose banking_details or total_value is
\* null or whose key is absent, validate_banking_details returns a status in
\* {MATCH, MISMATCH, NOT_APPLICABLE} without raising, and returns NOT_APPLICABLE when
\* there are no banking details.
C26_BankingCheckTotal ==
    op = "validate_banking_details" =>
        /\ raised = ""
        /\ banking_check_result.status \in {"MATCH", "MISMATCH", "NOT_APPLICABLE"}
        /\ (BankingText.kind = "none" \/ BankingText = PyStr(<<>>))
              => BankingStatus("NOT_APPLICABLE")

-----------------------------------------------------------------------------
(* Consolidation *)

\* C24: consolidate_extractions returns None when the base extraction is None; when
\* both inputs are present the result has exactly the keys of the base, every non-null
\* base value is kept, a null base value is replaced by the agent's value for that key
\* when that value is non-null, and the base dictionary itself is not modified.
C24_Consolidation ==
    op = "consolidate_extractions" =>
        LET base == consolidation.base
            agent == consolidation.agent
            result == consolidation.result
        IN  /\ base.is_none => result.is_none
            /\ (~base.is_none /\ ~agent.is_none) =>
                  /\ ~result.is_none
                  /\ DictKeys(result.items) = DictKeys(base.items)
                  /\ \A k \in DictKeys(base.items) :
                        /\ DictGet(base.items, k) # PyNone
                              => DictGet(result.items, k) = DictGet(base.items, k)
                        /\ (DictGet(base.items, k) = PyNone /\ DictGet(agent.items, k) # PyNone)
                              => DictGet(result.items, k) = DictGet(agent.items, k)
                  /\ consolidation.base_after = base

-----------------------------------------------------------------------------
(* The application flow *)

\* the slots whose extraction returned a mapping, the invoice's aside
EligibleDocuments ==
    {d \in (file_uploads \cap DictKeys(all_extracted_data)) \ {"commercial_invoice"} :
        ~DictGetDefault(all_extracted_data, d, NoneDict).is_none}

\* the invoice was uploaded and its extraction returned a mapping that is not empty
InvoiceExtracted ==
    /\ "commercial_invoice" \in file_uploads
    /\ ~source_of_truth_data.is_none
    /\ source_of_truth_data.items # <<>>

\* the documents that have a column in the summary
SummaryColumns == UNION {DictKeys(summary_results[i][2]) : i \in DOMAIN summary_results}

\* the handler has ended, by reaching its end or by an exception
HandlerEnded == pc \in {"done", "aborted"}

\* C29: in the application flow validate_documents runs only after extraction of all
\* uploaded documents has finished, only when a commercial invoice was uploaded and
\* its extraction returned a non-empty mapping, and exactly once for each uploaded
\* non-invoice document whose extraction returned a non-null mapping, with that
\* document's slot key as the document type; a document whose extraction returned
\* null gets no report and no column in the summary.
C29_ValidationFlow ==
    /\ validate_calls # <<>> =>
          /\ DictKeys(all_extracted_data) = file_uploads
          /\ InvoiceExtracted
    /\ \A i \in DOMAIN validate_calls :
          /\ validate_calls[i].target_doc_type \in EligibleDocuments
          /\ validate_calls[i].source_of_truth = source_of_truth_data.items
          /\ validate_calls[i].target_doc =
                DictGetDefault(all_extracted_data, validate_calls[i].target_doc_type,
                               NoneDict).items
          /\ \A j \in DOMAIN validate_calls :
                i # j => validate_calls[i].target_doc_type # validate_calls[j].target_doc_type
    /\ (HandlerEnded /\ InvoiceExtracted) =>
          {validate_calls[i].target_doc_type : i \in DOMAIN validate_calls} = EligibleDocuments
    /\ \A d \in file_uploads :
          DictGetDefault(all_extracted_data, d, NoneDict).is_none =>
             d \notin DictKeys(all_detailed_reports) \cup SummaryColumns

\* the panel of the banking section
BankingPanel ==
    {"st.write(Banking Details Provided)", "st.text(banking_details)", "st.text(Not Found)",
     "st.write(Total Value Provided)", "st.text(total_value)", "st.write(Result)"}

\* C30: when the banking check returns NOT_APPLICABLE the application shows only the
\* check's note as an informational message and does not render the banking-details /
\* total-value / result panel; the panel is rendered only for MATCH and MISMATCH.
C30_BankingDisplay ==
    (pc = "done" /\ banking_check_result # NoBankingResult) =>
        /\ banking_check_result.status = "NOT_APPLICABLE" =>
              /\ "st.info(notes)" \in Range(shown)
              /\ Range(shown) \cap BankingPanel = {}
        /\ Range(shown) \cap BankingPanel # {} =>
              banking_check_result.status \in {"MATCH", "MISMATCH"}

====
